---- MODULE Spec2Model ----
(***************************************************************************)
(* State-machine model of ClassifierSdk (src/src/index.ts): the streaming  *)
(* session (stream handle + keep-alive timer), sendClassifyRequest with    *)
(* its asynchronous preparation phase, and the events of the duplex        *)
(* stream returned by client.classify().                                   *)
(*                                                                         *)
(* Node runs every callback to completion, so each action below is one     *)
(* synchronous run: a public method up to its first await, a continuation  *)
(* after an await, a timer callback or a stream listener.                  *)
(***************************************************************************)
EXTENDS Integers, Sequences, FiniteSets, TLC

\* ---- bounds -------------------------------------------------------------
MaxStreams == 2   \* Spec: streams opened over one run
MaxCalls == 1     \* Spec: sendClassifyRequest calls over one run
PairStreams == 1  \* SpecPair: streams opened over one run
PairCalls == 2    \* SpecPair: sendClassifyRequest calls over one run
MaxBatch == 2     \* inputs in one sendClassifyRequest call
MaxTicks == 1     \* keep-alive callbacks reaching their write over one run
MaxErrors == 1    \* 'error' events raised by the transport over one run
EventStreams == 1 \* SpecEvents: streams opened over one run
EventTicks == 2   \* SpecEvents: keep-alive callbacks reaching their write
MaxData == 2      \* SpecEvents: inbound messages raised by the streams
MaxLists == 2     \* SpecList: listDeployments calls over one run
MaxAuthCalls == 3 \* SpecAuth: getAuthenticationHeader calls over one run

Larger(a, b) == IF a > b THEN a ELSE b
StreamIds == 1..Larger(Larger(MaxStreams, PairStreams), EventStreams)
CallIds == 1..Larger(MaxCalls, PairCalls)
CorrelationIds == 1..MaxBatch
ListenerIds == 1..2
Responses == 1..2
TransportErrorValues == 1..2

\* The batches a caller can pass: arrays of 0..MaxBatch inputs, each input
\* identified by its explicit correlationId, all distinct within one batch.
RECURSIVE SeqsUpTo(_, _)
SeqsUpTo(S, n) ==
  IF n = 0 THEN {<<>>}
  ELSE LET shorter == SeqsUpTo(S, n - 1)
       IN shorter \cup {Append(q, x) : q \in {r \in shorter : Len(r) = n - 1}, x \in S}

Batches ==
  {b \in SeqsUpTo(CorrelationIds, MaxBatch) :
     \A i, j \in 1..Len(b) : i # j => b[i] # b[j]}

VARIABLES
  classifierGrpcCall,  \* this.classifierGrpcCall: 0 = null, else the stream id
  keepAlive,           \* this.keepAlive: 0 = undefined, else the timer id
  activeTimers,        \* timers created by setInterval and not yet cleared
  nStreams,            \* streams created so far by client.classify()
  pendingOpens,        \* open() calls suspended at `await createMetadata()`
  streams,             \* per stream: what the client and the transport did to it
  calls,               \* per sendClassifyRequest call: its position and locals
  written,             \* envelopes accepted by stream.write(), in write order
  emitted,             \* how many times each event was emitted
  lastEmitted,         \* the last emission, with what its listeners observed
  nTicks,              \* keep-alive callbacks that found a stream handle so far
  closesSinceOpen,     \* close() calls returned since open() was last called (2 = two or more)
  credentialFetches,   \* createMetadata() calls made by open(): credential provider invocations
  rejectedOpens,       \* open() calls that rejected
  logged,              \* console.log calls made by the keep-alive callback
  inbound,             \* the messages the streams raised as 'data', in arrival order
  listeners,           \* per caller listener: its 'data' subscription and what it received
  single,              \* the classifySingle call: its position and locals
  list,                \* the listDeployments calls: position and locals of the latest
  prep,                \* one preparation of an image input: the input and what came of it
  auth,                \* the AuthenticationManager: its fields and the requests it made
  authCalls            \* per getAuthenticationHeader call: its position and locals

vars == <<classifierGrpcCall, keepAlive, activeTimers, nStreams, pendingOpens,
          streams, calls, written, emitted, lastEmitted, nTicks, closesSinceOpen,
          credentialFetches, rejectedOpens, logged, inbound, listeners, single,
          list, prep, auth, authCalls>>

\* The state of the unary path and of the caller's subscriptions.
\* The state of the unary listing path, of the preparation on its own and of
\* the AuthenticationManager on its own.
beyond == <<list, prep, auth, authCalls>>

apart == <<inbound, listeners, single, beyond>>

deploymentId == 7

Events == {"open", "data", "error", "close"}

\* The Error a throwing stream.write() raises (transport errors are 1, 2).
WriteFailure == 3

NoEmission == [ev |-> "none", arg |-> 0, src |-> 0, handle |-> 0, timerOn |-> FALSE]

NewStream == [ended |-> FALSE, endRaised |-> FALSE, closeRaised |-> FALSE,
              needDrain |-> FALSE, nErrors |-> 0, lastError |-> 0]

\* A listener the caller may pass to on('data', ...): not subscribed, nothing
\* received; `since` is the number of 'data' emissions before it subscribed.
NewListener == [on |-> FALSE, since |-> 0, received |-> <<>>]

\* What a unary callback is called with: (err, response); err 0 is null.
NoCallback == [err |-> 0, response |-> 0]

IdleSingle == [pc |-> "idle", prepared |-> 0, fetched |-> 0, sent |-> 0,
               callback |-> NoCallback, err |-> "none", transportError |-> 0,
               response |-> 0]

\* The responses the unary listDeployments call can report: none at all, one
\* without a deployment list, or one with a list.
DeploymentLists == {<<>>, <<1>>, <<2, 1>>}
NoResponse == [present |-> FALSE, hasList |-> FALSE, deployments |-> <<>>]
ListResponses ==
  {NoResponse, [present |-> TRUE, hasList |-> FALSE, deployments |-> <<>>]}
    \cup {[present |-> TRUE, hasList |-> TRUE, deployments |-> d] : d \in DeploymentLists}

\* What listDeployments resolved to: an array or not, and its items.
NoResult == [isArray |-> FALSE, items |-> <<>>]

IdleList == [pc |-> "idle", invocations |-> 0, fetched |-> 0, sent |-> 0,
             callback |-> [err |-> 0, response |-> NoResponse],
             err |-> "none", transportError |-> 0, result |-> NoResult]

IdleCall == [pc |-> "idle", inputs |-> <<>>, processed |-> <<>>,
             prepInvoked |-> 0, err |-> "none", enteredOn |-> 0, waitOn |-> 0,
             after |-> {}]

\* The fields of a ClassifierSdk after construction.
Constructed ==
  /\ classifierGrpcCall = 0
  /\ keepAlive = 0
  /\ activeTimers = {}
  /\ nStreams = 0
  /\ pendingOpens = 0
  /\ streams = [s \in StreamIds |-> NewStream]
  /\ calls = [c \in CallIds |-> IdleCall]
  /\ written = <<>>
  /\ emitted = [ev \in Events |-> 0]
  /\ lastEmitted = NoEmission
  /\ nTicks = 0
  /\ closesSinceOpen = 0
  /\ credentialFetches = 0
  /\ rejectedOpens = 0
  /\ logged = 0
  /\ inbound = <<>>
  /\ listeners = [l \in ListenerIds |-> NewListener]
  /\ single = IdleSingle
  /\ list = IdleList

\* ---- image preparation --------------------------------------------------

\* The side of the square the service expects, in pixels.
TargetSide == 448

HashTypes == {"MD5", "SHA1", "UNKNOWN"}
Sides == {TargetSide - 1, TargetSide, TargetSide + 1}
FileSizes == {1024, TargetSide * TargetSide * 3}

\* includeHashes as the caller passes it: not given, or a list of hash types.
HashLists == {<<>>} \cup {<<a>> : a \in HashTypes} \cup {<<a, b>> : a, b \in HashTypes}
IncludeHashes ==
  {[given |-> FALSE, types |-> <<>>]} \cup {[given |-> TRUE, types |-> h] : h \in HashLists}

\* The format the caller may name for the image: none, or an image format.
InputFormats == {"absent", "PNG", "RAW_UINT8_BGR"}

\* The encoding the caller may ask for: none, or a request encoding.
InputEncodings == {"undefined", "UNCOMPRESSED", "BROTLI"}

\* The image inputs a caller can pass: the image behind `data` (its
\* dimensions, whether sharp can decode it, its size in bytes), and the
\* optional format, resize, encoding and includeHashes.
ImageInputs ==
  [width : Sides, height : Sides, decodable : BOOLEAN, bytes : FileSizes,
   format : InputFormats,
   resize : {"undefined", "true", "false"},
   encoding : InputEncodings,
   includeHashes : IncludeHashes]

SampleInput ==
  [width |-> TargetSide, height |-> TargetSide, decodable |-> TRUE, bytes |-> 1024,
   format |-> "absent", resize |-> "undefined", encoding |-> "UNCOMPRESSED",
   includeHashes |-> [given |-> FALSE, types |-> <<>>]]

NoDigest == [defined |-> FALSE, value |-> ""]
NoData == [kind |-> "none", rawBytes |-> 0, compressed |-> FALSE]
NoOutput == [ok |-> FALSE, err |-> "none", md5 |-> NoDigest, sha1 |-> NoDigest,
             data |-> NoData, format |-> "none", encoding |-> "none", hashes |-> <<>>]

\* A preparation not yet run on input i.
Unprepared(i) == [via |-> "none", input |-> i, out |-> NoOutput]

\* ---- AuthenticationManager -----------------------------------------------

AuthCallIds == 1..MaxAuthCalls

\* options.audience: not given, or one of the valid audiences.
Audiences == {"", "crisp-athena-dev"}

NoToken == [id |-> 0, type |-> "", refresh |-> FALSE]

\* A new AuthenticationManager: no discovery, no token, no expiration; the
\* counters are the requests it has made and the tokens it was issued;
\* expiryOf is the token whose exp this.tokenExpiration was computed from.
NewManager(audience) ==
  [audience |-> audience, discovery |-> FALSE, token |-> NoToken,
   tokenExpiration |-> "undefined", expiryOf |-> 0,
   nDiscoveries |-> 0, nRefreshes |-> 0, nGrants |-> 0, issued |-> 0]

NoHeader == [scheme |-> "", credentials |-> 0]

IdleAuthCall ==
  [pc |-> "idle", first |-> FALSE, alone |-> FALSE,
   discoveries |-> 0, refreshes |-> 0, grants |-> 0, grantAudience |-> "",
   sawExpired |-> 0, hadRefresh |-> FALSE, refreshFailed |-> FALSE,
   obtained |-> 0, header |-> NoHeader]

Init ==
  /\ Constructed
  /\ prep = Unprepared(SampleInput)
  /\ auth = NewManager("")
  /\ authCalls = [c \in AuthCallIds |-> IdleAuthCall]

\* The same client, with any image input about to be prepared.
InitPrepare ==
  /\ Constructed
  /\ prep \in {Unprepared(i) : i \in ImageInputs}
  /\ auth = NewManager("")
  /\ authCalls = [c \in AuthCallIds |-> IdleAuthCall]

\* The same client, its AuthenticationManager built with any audience option.
InitAuth ==
  /\ Constructed
  /\ prep = Unprepared(SampleInput)
  /\ auth \in {NewManager(a) : a \in Audiences}
  /\ authCalls = [c \in AuthCallIds |-> IdleAuthCall]

Includes(types, h) == \E k \in DOMAIN types : types[k] = h

\* md5.digest('hex') / sha1.digest('hex') of the bytes read from the stream:
\* a hex string, never blank; undefined for a type not in `hashes`.
Digest(algorithm, types) ==
  IF Includes(types, algorithm)
  THEN [defined |-> TRUE, value |-> IF algorithm = "MD5" THEN "md5-hex" ELSE "sha1-hex"]
  ELSE NoDigest

\* Mutant of DimensionsMismatch: an image is refused only when both sides
\* differ.
DimensionsMismatchBoth(width, height) == width # TargetSide /\ height # TargetSide

\* `metadata.width !== 448 || metadata.height !== 448`
DimensionsMismatch(width, height) == width # TargetSide \/ height # TargetSide

\* The buffer returned: the resized raw BGR pixels, or the bytes read from
\* the stream; brotli-compressed when the encoding asks for it.
DataOf(image, resize, encoding) ==
  [kind |-> IF resize THEN "rawBGR" ELSE "original",
   rawBytes |-> IF resize THEN TargetSide * TargetSide * 3 ELSE image.bytes,
   compressed |-> (encoding = "BROTLI")]

\* computeHashesFromStream(data, encoding, imageFormat, resize, hashes).
ComputeHashesFromStream(image, encoding, imageFormat, resize, hashes) ==
  IF ~image.decodable
  THEN [NoOutput EXCEPT !.err = "sharp"]
  ELSE IF ~resize /\ DimensionsMismatch(image.width, image.height)
  THEN [NoOutput EXCEPT !.err = "Image must be 448x448 pixels"]
  ELSE [ok |-> TRUE, err |-> "none",
        md5 |-> Digest("MD5", hashes), sha1 |-> Digest("SHA1", hashes),
        data |-> DataOf(image, resize, encoding),
        format |-> IF resize THEN "RAW_UINT8_BGR" ELSE imageFormat,
        encoding |-> "none", hashes |-> <<>>]

\* `md5 && md5.trim() !== ''`
NonBlank(digest) == digest.defined /\ digest.value \notin {"", " "}

\* Mutant of HashesOf: the SHA1 entry is pushed first.
HashesSha1First(md5, sha1) ==
  (IF NonBlank(sha1) THEN <<[type |-> "SHA1", value |-> sha1.value]>> ELSE <<>>)
    \o (IF NonBlank(md5) THEN <<[type |-> "MD5", value |-> md5.value]>> ELSE <<>>)

\* The hashes array processImageInput builds: MD5 if non-blank, then SHA1 if
\* non-blank.
HashesOf(md5, sha1) ==
  (IF NonBlank(md5) THEN <<[type |-> "MD5", value |-> md5.value]>> ELSE <<>>)
    \o (IF NonBlank(sha1) THEN <<[type |-> "SHA1", value |-> sha1.value]>> ELSE <<>>)

\* The destructuring default of includeHashes.
RequestedHashes(input) ==
  IF input.includeHashes.given THEN input.includeHashes.types ELSE <<"MD5", "SHA1">>

\* The destructuring default of encoding (and the parameter default of
\* computeHashesFromStream).
EncodingOf(input) ==
  IF input.encoding = "undefined" THEN "UNCOMPRESSED" ELSE input.encoding

\* `'format' in input ? input.format : ImageFormat.IMAGE_FORMAT_UNSPECIFIED`
InputFormat(input) == IF input.format = "absent" THEN "UNSPECIFIED" ELSE input.format

\* Mutant of ShouldResize: the image is resized only when resize is true.
ShouldResizeOnRequest(input) == input.resize = "true"

\* `const shouldResize = input.resize !== false`
ShouldResize(input) == input.resize # "false"

\* processImageInput(input): resize unless input.resize is false, the
\* caller's format and encoding, the hashes asked for; the encoding is
\* returned as resolved.
ProcessImageInput(input) ==
  LET computed == ComputeHashesFromStream(input, EncodingOf(input), InputFormat(input),
                                          ShouldResize(input),
                                          RequestedHashes(input))
  IN IF computed.ok
     THEN [computed EXCEPT !.hashes = HashesOf(computed.md5, computed.sha1),
                           !.encoding = EncodingOf(input)]
     ELSE computed

\* The caller prepares prep.input through the client (processImageInput).
Prepare ==
  /\ prep.via = "none"
  /\ prep' = [prep EXCEPT !.via = "sdk", !.out = ProcessImageInput(prep.input)]
  /\ UNCHANGED <<classifierGrpcCall, keepAlive, activeTimers, nStreams, pendingOpens,
                 streams, calls, written, emitted, lastEmitted, nTicks,
                 closesSinceOpen, credentialFetches, rejectedOpens, logged,
                 inbound, listeners, single, list, auth, authCalls>>

\* The caller calls computeHashesFromStream itself, with the parameter
\* defaults where prep.input gives nothing (resize false, both hashes).
Hash ==
  /\ prep.via = "none"
  /\ prep' = [prep EXCEPT !.via = "direct",
                          !.out = ComputeHashesFromStream(prep.input, EncodingOf(prep.input),
                                    InputFormat(prep.input), prep.input.resize = "true",
                                    RequestedHashes(prep.input))]
  /\ UNCHANGED <<classifierGrpcCall, keepAlive, activeTimers, nStreams, pendingOpens,
                 streams, calls, written, emitted, lastEmitted, nTicks,
                 closesSinceOpen, credentialFetches, rejectedOpens, logged,
                 inbound, listeners, single, list, auth, authCalls>>

\* ---- helpers ------------------------------------------------------------

\* clearInterval(this.keepAlive) guarded by `if (this.keepAlive)`.
ClearKeepAlive(timers, k) == IF k # 0 THEN timers \ {k} ELSE timers

\* this.emit(ev, ...): the event with what a listener can observe while it
\* runs: the handle and whether the timer held by this.keepAlive is active.
Emission(ev, arg, src, h, timers, k) ==
  [ev |-> ev, arg |-> arg, src |-> src, handle |-> h,
   timerOn |-> (k # 0 /\ k \in timers)]

\* Mutant of Envelope: the envelope carries no deployment id.
EnvelopeUnidentified(s, c, inputs) ==
  [stream |-> s, call |-> c, deploymentId |-> 0, inputs |-> inputs]

\* stream.write(envelope): the envelope as the stream receives it.
Envelope(s, c, inputs) ==
  [stream |-> s, call |-> c, deploymentId |-> deploymentId, inputs |-> inputs]

\* `if (this.classifierGrpcCall)` in close(), the timer callback and the
\* promise executor of sendClassifyRequest.
HandleIsNull(h) == h = 0

\* Mutant of NotOpen: the entry check is missing.
NotOpenUnchecked(h) == FALSE

\* `if (!this.classifierGrpcCall) throw ...` at the entry of sendClassifyRequest.
NotOpen(h) == h = 0

\* Mutant of PushInput: the prepared input is put in front of the list.
PushFront(processed, input) == <<input>> \o processed

\* processedInputs.push(input): the prepared input joins the end of the list.
PushInput(processed, input) == Append(processed, input)

\* processImageInput: the ClassificationInput built for one caller input; the
\* explicit correlationId is copied into it.
ProcessedInput(cid) == [correlationId |-> cid]

\* What stream.write() can return for stream st: false (buffer full) for as
\* long as an earlier false has not been followed by 'drain'; "throw" when
\* the call raises instead.
WriteResults(st) == IF st.needDrain THEN {"false", "throw"} ELSE {"true", "false", "throw"}

\* The stream after write() returned r.
AfterWrite(st, r) == IF r = "false" THEN [st EXCEPT !.needDrain = TRUE] ELSE st

\* Mutant of Accept: the envelope overtakes the ones written before it.
AcceptFront(log, env, r) == IF r = "throw" THEN log ELSE <<env>> \o log

\* The log of accepted envelopes after write(env) returned r.
Accept(log, env, r) == IF r = "throw" THEN log ELSE Append(log, env)

Resolved(c) == calls[c].pc = "resolved"
Started(c) == calls[c].pc # "idle"


\* this.emit(ev, ...) as the listeners see it.
Emit(ev, arg, src, h, timers, k) ==
  /\ emitted' = [emitted EXCEPT ![ev] = @ + 1]
  /\ lastEmitted' = Emission(ev, arg, src, h, timers, k)

RECURSIVE ErrorsUpTo(_)
ErrorsUpTo(n) == IF n = 0 THEN 0 ELSE streams[n].nErrors + ErrorsUpTo(n - 1)

TransportErrors == ErrorsUpTo(nStreams)

\* ---- open() -------------------------------------------------------------

\* Mutant of OpenCall: the metadata of an earlier open() is reused.
OpenCallCached ==
  /\ pendingOpens' = pendingOpens + 1
  /\ closesSinceOpen' = 0
  /\ credentialFetches' = IF credentialFetches = 0 THEN 1 ELSE credentialFetches
  /\ UNCHANGED <<classifierGrpcCall, keepAlive, activeTimers, nStreams, streams,
                 calls, written, emitted, lastEmitted, nTicks, rejectedOpens,
                 logged, apart>>

\* open() up to the await inside createMetadata(): new metadata is built and
\* the credential provider is asked for its header.
OpenCall ==
  /\ pendingOpens' = pendingOpens + 1
  /\ closesSinceOpen' = 0
  /\ credentialFetches' = credentialFetches + 1
  /\ UNCHANGED <<classifierGrpcCall, keepAlive, activeTimers, nStreams, streams,
                 calls, written, emitted, lastEmitted, nTicks, rejectedOpens,
                 logged, apart>>

\* Mutant of OpenReject: the failure is caught and the credential is asked
\* for again.
OpenRejectRetried ==
  /\ pendingOpens > 0
  /\ credentialFetches' = credentialFetches + 1
  /\ UNCHANGED <<classifierGrpcCall, keepAlive, activeTimers, nStreams, streams,
                 calls, written, emitted, lastEmitted, nTicks, closesSinceOpen,
                 pendingOpens, rejectedOpens, logged, apart>>

\* createMetadata() rejected (the credential provider failed): open() rejects.
OpenReject ==
  /\ pendingOpens > 0
  /\ pendingOpens' = pendingOpens - 1
  /\ rejectedOpens' = rejectedOpens + 1
  /\ UNCHANGED <<classifierGrpcCall, keepAlive, activeTimers, nStreams, streams,
                 calls, written, emitted, lastEmitted, nTicks, closesSinceOpen,
                 credentialFetches, logged, apart>>

\* Mutant of OpenResume: 'open' is emitted before the handle and the timer
\* are set.
OpenResumeEmitFirst ==
  /\ pendingOpens > 0
  /\ LET s == nStreams + 1
         timers == activeTimers \cup {s}
     IN /\ pendingOpens' = pendingOpens - 1
        /\ nStreams' = s
        /\ classifierGrpcCall' = s
        /\ keepAlive' = s
        /\ activeTimers' = timers
        /\ Emit("open", 0, 0, classifierGrpcCall, activeTimers, keepAlive)
  /\ UNCHANGED <<streams, calls, written, nTicks, closesSinceOpen,
                 credentialFetches, rejectedOpens, logged, apart>>

\* Mutant of OpenResume: a prior session is cleaned up first (its timer
\* cleared, its stream ended).
OpenResumeCleaning ==
  /\ pendingOpens > 0
  /\ LET s == nStreams + 1
         h == classifierGrpcCall
         timers == ClearKeepAlive(activeTimers, keepAlive) \cup {s}
     IN /\ pendingOpens' = pendingOpens - 1
        /\ nStreams' = s
        /\ classifierGrpcCall' = s
        /\ keepAlive' = s
        /\ activeTimers' = timers
        /\ streams' = IF HandleIsNull(h) THEN streams
                      ELSE [streams EXCEPT ![h].ended = TRUE]
        /\ Emit("open", 0, 0, s, timers, s)
  /\ UNCHANGED <<calls, written, nTicks, closesSinceOpen,
                 credentialFetches, rejectedOpens, logged, apart>>

\* open() after the await: create the stream, start the timer, attach the
\* listeners, emit 'open'.
OpenResume ==
  /\ pendingOpens > 0
  /\ LET s == nStreams + 1
         timers == activeTimers \cup {s}
     IN /\ pendingOpens' = pendingOpens - 1
        /\ nStreams' = s
        /\ classifierGrpcCall' = s
        /\ keepAlive' = s
        /\ activeTimers' = timers
        /\ Emit("open", 0, 0, s, timers, s)
  /\ UNCHANGED <<streams, calls, written, nTicks, closesSinceOpen,
                 credentialFetches, rejectedOpens, logged, apart>>

\* ---- close() ------------------------------------------------------------

\* Mutant of CloseOpenSession: the handle is not nulled.
CloseKeepingHandle ==
  LET h == classifierGrpcCall
      cleared == ClearKeepAlive(activeTimers, keepAlive)
  IN /\ activeTimers' = cleared
     /\ streams' = [streams EXCEPT ![h].ended = TRUE]
     /\ classifierGrpcCall' = h
     /\ Emit("close", 0, 0, h, cleared, keepAlive)

\* close() with a stream handle: clear the timer, end the stream, null the
\* handle, emit 'close'.
CloseOpenSession ==
  LET h == classifierGrpcCall
      cleared == ClearKeepAlive(activeTimers, keepAlive)
  IN /\ activeTimers' = cleared
     /\ streams' = [streams EXCEPT ![h].ended = TRUE]
     /\ classifierGrpcCall' = 0
     /\ Emit("close", 0, 0, 0, cleared, keepAlive)

\* Mutant of Close: close() also settles the calls waiting for 'drain' on
\* the stream it ends.
CloseSettling ==
  /\ IF HandleIsNull(classifierGrpcCall)
     THEN UNCHANGED <<classifierGrpcCall, activeTimers, streams, emitted, lastEmitted>>
     ELSE CloseOpenSession
  /\ closesSinceOpen' = IF closesSinceOpen = 0 THEN 1 ELSE 2
  /\ calls' = [c \in CallIds |->
                 IF calls[c].pc = "awaitDrain" /\ calls[c].waitOn = classifierGrpcCall
                 THEN [calls[c] EXCEPT !.pc = "resolved"]
                 ELSE calls[c]]
  /\ UNCHANGED <<keepAlive, nStreams, pendingOpens, written, nTicks,
                 credentialFetches, rejectedOpens, logged, apart>>

\* close(): lines 358-367; the pending sendClassifyRequest calls are not
\* touched.
Close ==
  /\ IF HandleIsNull(classifierGrpcCall)
     THEN UNCHANGED <<classifierGrpcCall, activeTimers, streams, emitted, lastEmitted>>
     ELSE CloseOpenSession
  /\ closesSinceOpen' = IF closesSinceOpen = 0 THEN 1 ELSE 2
  /\ UNCHANGED <<keepAlive, nStreams, pendingOpens, calls, written, nTicks,
                 credentialFetches, rejectedOpens, logged, apart>>

\* ---- the keep-alive timer ----------------------------------------------

\* What the heartbeat's write can do: what stream.write() can, or throw a
\* value that is not an Error (logged, not emitted).
TickResults(st) == WriteResults(st) \cup {"throwOther"}

\* The heartbeat's envelope: the deployment id and no inputs (call 0).
Heartbeat(h) == Envelope(h, 0, <<>>)

\* Mutant of Tick: a heartbeat write that throws ends the session (the timer
\* is cleared and the handle nulled).
TickEndingSession ==
  /\ activeTimers # {}
  /\ IF HandleIsNull(classifierGrpcCall)
     THEN UNCHANGED <<classifierGrpcCall, activeTimers, streams, written, emitted,
                      lastEmitted, nTicks, logged>>
     ELSE \E r \in TickResults(streams[classifierGrpcCall]) :
            LET h == classifierGrpcCall
                threw == r \in {"throw", "throwOther"}
                cleared == IF threw THEN ClearKeepAlive(activeTimers, keepAlive)
                           ELSE activeTimers
            IN /\ nTicks' = nTicks + 1
               /\ streams' = [streams EXCEPT ![h] = AfterWrite(@, r)]
               /\ written' = IF r = "throwOther" THEN written
                             ELSE Accept(written, Heartbeat(h), r)
               /\ classifierGrpcCall' = IF threw THEN 0 ELSE h
               /\ activeTimers' = cleared
               /\ IF r = "throw"
                  THEN Emit("error", WriteFailure, 0, 0, cleared, keepAlive)
                  ELSE UNCHANGED <<emitted, lastEmitted>>
               /\ logged' = IF r = "throwOther" THEN logged + 1 ELSE logged
  /\ UNCHANGED <<keepAlive, nStreams, pendingOpens, calls, closesSinceOpen,
                 credentialFetches, rejectedOpens, apart>>

\* Mutant of Tick: the heartbeat is skipped while the stream waits for
\* 'drain'.
TickGated ==
  /\ activeTimers # {}
  /\ IF HandleIsNull(classifierGrpcCall) \/ streams[classifierGrpcCall].needDrain
     THEN UNCHANGED <<streams, written, emitted, lastEmitted, nTicks, logged>>
     ELSE \E r \in TickResults(streams[classifierGrpcCall]) :
            LET h == classifierGrpcCall
            IN /\ nTicks' = nTicks + 1
               /\ streams' = [streams EXCEPT ![h] = AfterWrite(@, r)]
               /\ written' = IF r = "throwOther" THEN written
                             ELSE Accept(written, Heartbeat(h), r)
               /\ IF r = "throw"
                  THEN Emit("error", WriteFailure, 0, h, activeTimers, keepAlive)
                  ELSE UNCHANGED <<emitted, lastEmitted>>
               /\ logged' = IF r = "throwOther" THEN logged + 1 ELSE logged
  /\ UNCHANGED <<classifierGrpcCall, keepAlive, activeTimers, nStreams, pendingOpens,
                 calls, closesSinceOpen, credentialFetches, rejectedOpens, apart>>

\* Mutant of Tick: whatever the heartbeat write throws is swallowed, neither
\* emitted nor logged.
TickSilent ==
  /\ activeTimers # {}
  /\ IF HandleIsNull(classifierGrpcCall)
     THEN UNCHANGED <<streams, written, nTicks>>
     ELSE \E r \in TickResults(streams[classifierGrpcCall]) :
            LET h == classifierGrpcCall
            IN /\ nTicks' = nTicks + 1
               /\ streams' = [streams EXCEPT ![h] = AfterWrite(@, r)]
               /\ written' = IF r = "throwOther" THEN written
                             ELSE Accept(written, Heartbeat(h), r)
  /\ UNCHANGED <<classifierGrpcCall, keepAlive, activeTimers, nStreams, pendingOpens,
                 calls, closesSinceOpen, credentialFetches, rejectedOpens, apart,
                 emitted, lastEmitted, logged>>

\* One run of the setInterval callback of any timer still scheduled: with a
\* stream handle, write the heartbeat; an Error thrown by the write is
\* emitted as 'error', any other thrown value is passed to console.log.
Tick ==
  /\ activeTimers # {}
  /\ IF HandleIsNull(classifierGrpcCall)
     THEN UNCHANGED <<streams, written, emitted, lastEmitted, nTicks, logged>>
     ELSE \E r \in TickResults(streams[classifierGrpcCall]) :
            LET h == classifierGrpcCall
            IN /\ nTicks' = nTicks + 1
               /\ streams' = [streams EXCEPT ![h] = AfterWrite(@, r)]
               /\ written' = IF r = "throwOther" THEN written
                             ELSE Accept(written, Heartbeat(h), r)
               /\ IF r = "throw"
                  THEN Emit("error", WriteFailure, 0, h, activeTimers, keepAlive)
                  ELSE UNCHANGED <<emitted, lastEmitted>>
               /\ logged' = IF r = "throwOther" THEN logged + 1 ELSE logged
  /\ UNCHANGED <<classifierGrpcCall, keepAlive, activeTimers, nStreams, pendingOpens,
                 calls, closesSinceOpen, credentialFetches, rejectedOpens, apart>>

\* ---- stream listeners ---------------------------------------------------

\* A stream raises events once created and until it has raised 'close'.
Live(s) == s <= nStreams /\ ~streams[s].closeRaised

\* Mutant of StreamError: the error is also thrown into the pending
\* sendClassifyRequest calls.
StreamErrorRejecting(s, e) ==
  /\ Live(s)
  /\ TransportErrors < MaxErrors
  /\ streams' = [streams EXCEPT ![s].nErrors = @ + 1, ![s].lastError = e]
  /\ Emit("error", e, s, classifierGrpcCall, activeTimers, keepAlive)
  /\ calls' = [c \in CallIds |->
                 IF calls[c].pc \in {"preparing", "awaitDrain"}
                 THEN [calls[c] EXCEPT !.pc = "rejected", !.err = "transport"]
                 ELSE calls[c]]
  /\ UNCHANGED <<classifierGrpcCall, keepAlive, activeTimers, nStreams, pendingOpens,
                 written, nTicks, closesSinceOpen, credentialFetches,
                 rejectedOpens, logged, apart>>

\* classifierGrpcCall.on('error', ...): stream s raises 'error' with e.
StreamError(s, e) ==
  /\ Live(s)
  /\ TransportErrors < MaxErrors
  /\ streams' = [streams EXCEPT ![s].nErrors = @ + 1, ![s].lastError = e]
  /\ Emit("error", e, s, classifierGrpcCall, activeTimers, keepAlive)
  /\ UNCHANGED <<classifierGrpcCall, keepAlive, activeTimers, nStreams, pendingOpens,
                 calls, written, nTicks, closesSinceOpen, credentialFetches,
                 rejectedOpens, logged, apart>>

\* Mutant of StreamEnd: close() has detached the listeners of the stream it
\* ended, so its 'end' emits nothing.
StreamEndDetached(s) ==
  /\ Live(s)
  /\ ~streams[s].endRaised
  /\ IF streams[s].ended
     THEN UNCHANGED <<activeTimers, classifierGrpcCall, emitted, lastEmitted>>
     ELSE LET cleared == ClearKeepAlive(activeTimers, keepAlive)
          IN /\ activeTimers' = cleared
             /\ classifierGrpcCall' = 0
             /\ Emit("close", 0, s, 0, cleared, keepAlive)
  /\ streams' = [streams EXCEPT ![s].endRaised = TRUE]
  /\ UNCHANGED <<keepAlive, nStreams, pendingOpens, calls, written, nTicks,
                 closesSinceOpen, credentialFetches, rejectedOpens, logged, apart>>

\* classifierGrpcCall.on('end', ...): clear, null the handle, then emit.
StreamEnd(s) ==
  /\ Live(s)
  /\ ~streams[s].endRaised
  /\ LET cleared == ClearKeepAlive(activeTimers, keepAlive)
     IN /\ activeTimers' = cleared
        /\ classifierGrpcCall' = 0
        /\ Emit("close", 0, s, 0, cleared, keepAlive)
  /\ streams' = [streams EXCEPT ![s].endRaised = TRUE]
  /\ UNCHANGED <<keepAlive, nStreams, pendingOpens, calls, written, nTicks,
                 closesSinceOpen, credentialFetches, rejectedOpens, logged, apart>>

\* classifierGrpcCall.on('close', ...): clear, emit, then null the handle.
StreamClose(s) ==
  /\ Live(s)
  /\ LET cleared == ClearKeepAlive(activeTimers, keepAlive)
     IN /\ activeTimers' = cleared
        /\ Emit("close", 0, s, classifierGrpcCall, cleared, keepAlive)
        /\ classifierGrpcCall' = 0
  /\ streams' = [streams EXCEPT ![s].closeRaised = TRUE]
  /\ UNCHANGED <<keepAlive, nStreams, pendingOpens, calls, written, nTicks,
                 closesSinceOpen, credentialFetches, rejectedOpens, logged, apart>>

\* The listeners' records after emit('data', m): every listener subscribed
\* now is called with m.
Deliver(ls, m) ==
  [l \in ListenerIds |->
     IF ls[l].on THEN [ls[l] EXCEPT !.received = Append(@, m)] ELSE ls[l]]

\* classifierGrpcCall.on('data', ...): stream s raises 'data' with the
\* ClassifyResponse m; it is emitted as 'data'.
StreamData(s, m) ==
  /\ Live(s)
  /\ ~streams[s].endRaised
  /\ inbound' = Append(inbound, [stream |-> s, response |-> m])
  /\ Emit("data", m, s, classifierGrpcCall, activeTimers, keepAlive)
  /\ listeners' = Deliver(listeners, m)
  /\ UNCHANGED <<classifierGrpcCall, keepAlive, activeTimers, nStreams, pendingOpens,
                 streams, calls, written, nTicks, closesSinceOpen,
                 credentialFetches, rejectedOpens, logged, single, beyond>>

\* The responses of the messages raised so far.
RECURSIVE ResponsesOf(_)
ResponsesOf(log) ==
  IF log = <<>> THEN <<>> ELSE <<log[1].response>> \o ResponsesOf(Tail(log))

\* Mutant of Subscribe: the messages emitted so far are replayed to the new
\* listener.
SubscribeReplayed(l) ==
  /\ ~listeners[l].on
  /\ listeners' = [listeners EXCEPT ![l] = [on |-> TRUE, since |-> emitted["data"],
                                             received |-> ResponsesOf(inbound)]]
  /\ UNCHANGED <<classifierGrpcCall, keepAlive, activeTimers, nStreams, pendingOpens,
                 streams, calls, written, emitted, lastEmitted, nTicks,
                 closesSinceOpen, credentialFetches, rejectedOpens, logged,
                 inbound, single, beyond>>

\* sdk.on('data', l): listener l is added to the 'data' listeners.
Subscribe(l) ==
  /\ ~listeners[l].on
  /\ listeners' = [listeners EXCEPT ![l] = [on |-> TRUE, since |-> emitted["data"],
                                             received |-> <<>>]]
  /\ UNCHANGED <<classifierGrpcCall, keepAlive, activeTimers, nStreams, pendingOpens,
                 streams, calls, written, emitted, lastEmitted, nTicks,
                 closesSinceOpen, credentialFetches, rejectedOpens, logged,
                 inbound, single, beyond>>

\* ---- sendClassifyRequest ------------------------------------------------

\* Mutant of Settle: the promise resolves whatever write() returned.
SettleEager(rec, r, h) ==
  IF r = "throw" THEN [rec EXCEPT !.pc = "rejected", !.err = "write"]
  ELSE [rec EXCEPT !.pc = "resolved"]

\* Mutant of PrepareFailed: the failure is caught and the input prepared again.
PrepareRetried(rec) == [rec EXCEPT !.prepInvoked = @ + 1]

\* The promise executor after write() on stream h returned r: wait for
\* 'drain' on h (once) if it returned false, resolve otherwise; a write that
\* throws rejects the promise.
Settle(rec, r, h) ==
  CASE r = "true" -> [rec EXCEPT !.pc = "resolved"]
    [] r = "false" -> [rec EXCEPT !.pc = "awaitDrain", !.waitOn = h]
    [] OTHER -> [rec EXCEPT !.pc = "rejected", !.err = "write"]

\* `await this.processImageInput(request)` threw: the async function rejects
\* with that error; nothing else runs.
PrepareFailed(rec) == [rec EXCEPT !.pc = "rejected", !.err = "prepare"]

\* Lines 320-334: build the envelope from the prepared inputs and run the
\* promise executor for call c, whose record so far is rec: write to the
\* handle as it is now, wait for 'drain' if write() returned false, resolve
\* otherwise (also when the handle is null by now: nothing is written).
WriteAndSettle(c, rec) ==
  IF HandleIsNull(classifierGrpcCall)
  THEN /\ calls' = [calls EXCEPT ![c] = [rec EXCEPT !.pc = "resolved"]]
       /\ UNCHANGED <<streams, written>>
  ELSE \E r \in WriteResults(streams[classifierGrpcCall]) :
         LET h == classifierGrpcCall
         IN /\ streams' = [streams EXCEPT ![h] = AfterWrite(@, r)]
            /\ written' = Accept(written, Envelope(h, c, rec.processed), r)
            /\ calls' = [calls EXCEPT ![c] = Settle(rec, r, h)]

\* Mutant of SendClassifyRequest: a call is accepted only once every earlier
\* call has settled.
SendClassifyRequestQueued(c, batch) ==
  /\ calls[c].pc = "idle"
  /\ \A b \in 1..(c - 1) : calls[b].pc \in {"resolved", "rejected"}
  /\ LET entered == [calls[c] EXCEPT !.after = {a \in CallIds : Resolved(a)},
                                     !.enteredOn = classifierGrpcCall]
         rec == [entered EXCEPT !.inputs = batch]
     IN IF NotOpen(classifierGrpcCall)
        THEN /\ calls' = [calls EXCEPT ![c] = [entered EXCEPT !.pc = "rejected", !.err = "notOpen"]]
             /\ UNCHANGED <<streams, written>>
        ELSE IF batch = <<>>
        THEN WriteAndSettle(c, rec)
        ELSE /\ calls' = [calls EXCEPT ![c] = [rec EXCEPT !.pc = "preparing", !.prepInvoked = 1]]
             /\ UNCHANGED <<streams, written>>
  /\ UNCHANGED <<classifierGrpcCall, keepAlive, activeTimers, nStreams, pendingOpens,
                 emitted, lastEmitted, nTicks, closesSinceOpen, credentialFetches,
                 rejectedOpens, logged, apart>>

\* Mutant of SendClassifyRequest: the preparer is invoked for every input of
\* the batch at entry.
SendClassifyRequestAllAtOnce(c, batch) ==
  /\ calls[c].pc = "idle"
  /\ \A b \in 1..(c - 1) : Started(b)
  /\ LET entered == [calls[c] EXCEPT !.after = {a \in CallIds : Resolved(a)},
                                     !.enteredOn = classifierGrpcCall]
         rec == [entered EXCEPT !.inputs = batch]
     IN IF NotOpen(classifierGrpcCall)
        THEN /\ calls' = [calls EXCEPT ![c] = [entered EXCEPT !.pc = "rejected", !.err = "notOpen"]]
             /\ UNCHANGED <<streams, written>>
        ELSE IF batch = <<>>
        THEN WriteAndSettle(c, rec)
        ELSE /\ calls' = [calls EXCEPT ![c] = [rec EXCEPT !.pc = "preparing",
                                                         !.prepInvoked = Len(batch)]]
             /\ UNCHANGED <<streams, written>>
  /\ UNCHANGED <<classifierGrpcCall, keepAlive, activeTimers, nStreams, pendingOpens,
                 emitted, lastEmitted, nTicks, closesSinceOpen, credentialFetches,
                 rejectedOpens, logged, apart>>

\* sendClassifyRequest(request) up to its first await.
SendClassifyRequest(c, batch) ==
  /\ calls[c].pc = "idle"
  /\ \A b \in 1..(c - 1) : Started(b)
  /\ LET entered == [calls[c] EXCEPT !.after = {a \in CallIds : Resolved(a)},
                                     !.enteredOn = classifierGrpcCall]
         rec == [entered EXCEPT !.inputs = batch]
     IN IF NotOpen(classifierGrpcCall)
        THEN /\ calls' = [calls EXCEPT ![c] = [entered EXCEPT !.pc = "rejected", !.err = "notOpen"]]
             /\ UNCHANGED <<streams, written>>
        ELSE IF batch = <<>>
        THEN WriteAndSettle(c, rec)
        ELSE /\ calls' = [calls EXCEPT ![c] = [rec EXCEPT !.pc = "preparing", !.prepInvoked = 1]]
             /\ UNCHANGED <<streams, written>>
  /\ UNCHANGED <<classifierGrpcCall, keepAlive, activeTimers, nStreams, pendingOpens,
                 emitted, lastEmitted, nTicks, closesSinceOpen, credentialFetches,
                 rejectedOpens, logged, apart>>

\* The continuation after `await this.processImageInput(request)`:
\* computeHashesFromStream settled for the input in preparation.
PrepareSettled(c, ok) ==
  /\ calls[c].pc = "preparing"
  /\ LET rec == calls[c]
         i == Len(rec.processed) + 1
         pushed == [rec EXCEPT !.processed = PushInput(@, ProcessedInput(rec.inputs[i]))]
     IN IF ~ok
        THEN /\ calls' = [calls EXCEPT ![c] = PrepareFailed(rec)]
             /\ UNCHANGED <<streams, written>>
        ELSE IF i < Len(rec.inputs)
        THEN /\ calls' = [calls EXCEPT ![c] = [pushed EXCEPT !.prepInvoked = @ + 1]]
             /\ UNCHANGED <<streams, written>>
        ELSE WriteAndSettle(c, pushed)
  /\ UNCHANGED <<classifierGrpcCall, keepAlive, activeTimers, nStreams, pendingOpens,
                 emitted, lastEmitted, nTicks, closesSinceOpen, credentialFetches,
                 rejectedOpens, logged, apart>>

\* The stream raises 'drain': every once('drain', resolve) listener runs.
StreamDrain(s) ==
  /\ Live(s)
  /\ streams[s].needDrain
  /\ streams' = [streams EXCEPT ![s].needDrain = FALSE]
  /\ calls' = [c \in CallIds |->
                 IF calls[c].pc = "awaitDrain" /\ calls[c].waitOn = s
                 THEN [calls[c] EXCEPT !.pc = "resolved"]
                 ELSE calls[c]]
  /\ UNCHANGED <<classifierGrpcCall, keepAlive, activeTimers, nStreams, pendingOpens,
                 written, emitted, lastEmitted, nTicks, closesSinceOpen,
                 credentialFetches, rejectedOpens, logged, apart>>

\* ---- classifySingle -----------------------------------------------------

\* classifySingle(request) up to `await this.processImageInput(request)`.
ClassifySingle ==
  /\ single.pc = "idle"
  /\ single' = [single EXCEPT !.pc = "preparing", !.prepared = @ + 1]
  /\ UNCHANGED <<classifierGrpcCall, keepAlive, activeTimers, nStreams, pendingOpens,
                 streams, calls, written, emitted, lastEmitted, nTicks,
                 closesSinceOpen, credentialFetches, rejectedOpens, logged,
                 inbound, listeners, beyond>>

\* processImageInput settled: rejected, classifySingle rejects; fulfilled, it
\* goes on to `await this.createMetadata()`, which asks for the credential.
SinglePrepared(ok) ==
  /\ single.pc = "preparing"
  /\ single' = IF ok THEN [single EXCEPT !.pc = "metadata", !.fetched = @ + 1]
                ELSE [single EXCEPT !.pc = "rejected", !.err = "prepare"]
  /\ UNCHANGED <<classifierGrpcCall, keepAlive, activeTimers, nStreams, pendingOpens,
                 streams, calls, written, emitted, lastEmitted, nTicks,
                 closesSinceOpen, credentialFetches, rejectedOpens, logged,
                 inbound, listeners, beyond>>

\* Mutant of SingleMetadata: the input is sent on the duplex stream of the
\* session when there is one.
SingleMetadataViaStream(ok) ==
  /\ single.pc = "metadata"
  /\ single' = IF ok THEN [single EXCEPT !.pc = "calling", !.sent = @ + 1]
                ELSE [single EXCEPT !.pc = "rejected", !.err = "credential"]
  /\ written' = IF ok /\ ~HandleIsNull(classifierGrpcCall)
                 THEN Accept(written, Envelope(classifierGrpcCall, 0, <<ProcessedInput(1)>>), "true")
                 ELSE written
  /\ UNCHANGED <<classifierGrpcCall, keepAlive, activeTimers, nStreams, pendingOpens,
                 streams, calls, emitted, lastEmitted, nTicks,
                 closesSinceOpen, credentialFetches, rejectedOpens, logged,
                 inbound, listeners, beyond>>

\* createMetadata settled: rejected, classifySingle rejects; fulfilled, the
\* unary client.classifySingle(input, metadata, callback) is invoked.
SingleMetadata(ok) ==
  /\ single.pc = "metadata"
  /\ single' = IF ok THEN [single EXCEPT !.pc = "calling", !.sent = @ + 1]
                ELSE [single EXCEPT !.pc = "rejected", !.err = "credential"]
  /\ UNCHANGED <<classifierGrpcCall, keepAlive, activeTimers, nStreams, pendingOpens,
                 streams, calls, written, emitted, lastEmitted, nTicks,
                 closesSinceOpen, credentialFetches, rejectedOpens, logged,
                 inbound, listeners, beyond>>

\* Mutant of SingleResponse: a call the transport reports as failed is issued
\* again.
SingleResponseRetried(e, m) ==
  /\ single.pc = "calling"
  /\ single' = IF e # 0
                THEN [single EXCEPT !.callback = [err |-> e, response |-> 0],
                                    !.sent = @ + 1]
                ELSE [single EXCEPT !.pc = "resolved", !.response = m,
                                    !.callback = [err |-> 0, response |-> m]]
  /\ UNCHANGED <<classifierGrpcCall, keepAlive, activeTimers, nStreams, pendingOpens,
                 streams, calls, written, emitted, lastEmitted, nTicks,
                 closesSinceOpen, credentialFetches, rejectedOpens, logged,
                 inbound, listeners, beyond>>

\* The unary call's callback, called with (e, m): reject(err) if err is set,
\* resolve(response) otherwise.
SingleResponse(e, m) ==
  /\ single.pc = "calling"
  /\ single' = IF e # 0
                THEN [single EXCEPT !.pc = "rejected", !.err = "transport",
                                    !.transportError = e,
                                    !.callback = [err |-> e, response |-> 0]]
                ELSE [single EXCEPT !.pc = "resolved", !.response = m,
                                    !.callback = [err |-> 0, response |-> m]]
  /\ UNCHANGED <<classifierGrpcCall, keepAlive, activeTimers, nStreams, pendingOpens,
                 streams, calls, written, emitted, lastEmitted, nTicks,
                 closesSinceOpen, credentialFetches, rejectedOpens, logged,
                 inbound, listeners, beyond>>

\* ---- listDeployments ----------------------------------------------------

\* listDeployments() up to the await inside createMetadata(): new metadata is
\* built and the credential provider is asked for its header.
ListDeployments ==
  /\ list.pc \in {"idle", "resolved", "rejected"}
  /\ list' = [IdleList EXCEPT !.pc = "metadata",
                              !.invocations = list.invocations + 1,
                              !.fetched = list.fetched + 1,
                              !.sent = list.sent]
  /\ UNCHANGED <<classifierGrpcCall, keepAlive, activeTimers, nStreams, pendingOpens,
                 streams, calls, written, emitted, lastEmitted, nTicks,
                 closesSinceOpen, credentialFetches, rejectedOpens, logged,
                 inbound, listeners, single, prep, auth, authCalls>>

\* createMetadata settled: rejected, listDeployments rejects; fulfilled, the
\* unary client.listDeployments(Empty, metadata, callback) is invoked.
ListMetadata(ok) ==
  /\ list.pc = "metadata"
  /\ list' = IF ok THEN [list EXCEPT !.pc = "calling", !.sent = @ + 1]
              ELSE [list EXCEPT !.pc = "rejected", !.err = "credential"]
  /\ UNCHANGED <<classifierGrpcCall, keepAlive, activeTimers, nStreams, pendingOpens,
                 streams, calls, written, emitted, lastEmitted, nTicks,
                 closesSinceOpen, credentialFetches, rejectedOpens, logged,
                 inbound, listeners, single, prep, auth, authCalls>>

\* Mutant of DeploymentsOf: response.deployments is returned as it is.
DeploymentsUnguarded(response) ==
  IF response.present /\ response.hasList
  THEN [isArray |-> TRUE, items |-> response.deployments]
  ELSE NoResult

\* `response?.deployments || []`: the list of the response, or the empty
\* array when the response or its list is missing (an array is truthy).
DeploymentsOf(response) ==
  IF response.present /\ response.hasList
  THEN [isArray |-> TRUE, items |-> response.deployments]
  ELSE [isArray |-> TRUE, items |-> <<>>]

\* The unary call's callback, called with (e, response): reject(err) if err
\* is set, resolve(response?.deployments || []) otherwise.
ListResponse(e, response) ==
  /\ list.pc = "calling"
  /\ list' = IF e # 0
              THEN [list EXCEPT !.pc = "rejected", !.err = "transport",
                                !.transportError = e,
                                !.callback = [err |-> e, response |-> NoResponse]]
              ELSE [list EXCEPT !.pc = "resolved",
                                !.result = DeploymentsOf(response),
                                !.callback = [err |-> 0, response |-> response]]
  /\ UNCHANGED <<classifierGrpcCall, keepAlive, activeTimers, nStreams, pendingOpens,
                 streams, calls, written, emitted, lastEmitted, nTicks,
                 closesSinceOpen, credentialFetches, rejectedOpens, logged,
                 inbound, listeners, single, prep, auth, authCalls>>

\* ---- getAuthenticationHeader ---------------------------------------------

\* `${this.token.token_type} ${this.token.access_token}`
Header(token) == [scheme |-> token.type, credentials |-> token.id]

\* The token an endpoint issues: a new access token, with or without a
\* refresh_token.
Issued(a, refresh) == [id |-> a.issued + 1, type |-> "Bearer", refresh |-> refresh]

\* `if (this.decoded && this.decoded.exp) this.tokenExpiration = ...`: a new
\* token's exp lies ahead; without exp the old expiration stays.
Expiration(a, hasExp) == IF hasExp THEN "future" ELSE a.tokenExpiration

\* The token this.tokenExpiration belongs to after token `issued` is stored.
ExpiryOf(a, issued, hasExp) == IF hasExp THEN issued.id ELSE a.expiryOf

\* `this.tokenExpiration && this.tokenExpiration < new Date() && this.token`
Expired(a) == a.tokenExpiration = "past" /\ a.token.id # 0

\* Mutant of NeedsToken: a token is acquired on every call.
NeedsTokenAlways(token) == TRUE

\* `if (this.token === undefined)`
NeedsToken(token) == token.id = 0

\* Mutant of Dropped: a failed refresh keeps the held token.
Kept(token) == token

\* `this.token = undefined` after a failed refresh or without refresh_token.
Dropped(token) == NoToken

\* `audience: this.options.audience || 'crisp-athena-live'`
GrantAudience(a) == IF a.audience = "" THEN "crisp-athena-live" ELSE a.audience

\* Lines 272-290 up to the await, then lines 220-224: without a token,
\* request one by clientCredentialsGrant; with one, return its header.
Acquire(a, rec) ==
  IF NeedsToken(a.token)
  THEN [auth |-> [a EXCEPT !.nGrants = @ + 1],
        call |-> [rec EXCEPT !.pc = "granting", !.grants = @ + 1,
                             !.grantAudience = GrantAudience(a)]]
  ELSE [auth |-> a,
        call |-> [rec EXCEPT !.pc = "returned", !.header = Header(a.token)]]

\* Lines 246-270 up to the await: an expired token is dropped when it has no
\* refresh_token and refreshed by refreshTokenGrant when it has one.
Refresh(a, rec) ==
  IF Expired(a)
  THEN LET saw == [rec EXCEPT !.sawExpired = a.token.id, !.hadRefresh = a.token.refresh]
       IN IF ~a.token.refresh
          THEN Acquire([a EXCEPT !.token = Dropped(a.token)], saw)
          ELSE [auth |-> [a EXCEPT !.nRefreshes = @ + 1],
                call |-> [saw EXCEPT !.pc = "refreshing", !.refreshes = @ + 1]]
  ELSE Acquire(a, rec)

InFlight(c) == authCalls[c].pc \in {"discovering", "refreshing", "granting"}

\* The other calls after call c moved on as `next`: a call in flight while
\* another is entered is no longer alone.
WithCall(c, next, entering) ==
  [d \in AuthCallIds |->
     IF d = c THEN next
     ELSE IF entering /\ InFlight(d) THEN [authCalls[d] EXCEPT !.alone = FALSE]
     ELSE authCalls[d]]

\* getAuthenticationHeader() up to its first await: without discovery, ask
\* for it; with it, go on to the expiry check.
GetAuthenticationHeader(c) ==
  /\ authCalls[c].pc = "idle"
  /\ \A b \in 1..(c - 1) : authCalls[b].pc # "idle"
  /\ LET rec == [authCalls[c] EXCEPT
                   !.first = \A d \in AuthCallIds : authCalls[d].pc = "idle",
                   !.alone = \A d \in AuthCallIds : ~InFlight(d)]
         next == IF ~auth.discovery
                 THEN [auth |-> [auth EXCEPT !.nDiscoveries = @ + 1],
                       call |-> [rec EXCEPT !.pc = "discovering", !.discoveries = @ + 1]]
                 ELSE Refresh(auth, rec)
     IN /\ auth' = next.auth
        /\ authCalls' = WithCall(c, next.call, TRUE)
  /\ UNCHANGED <<classifierGrpcCall, keepAlive, activeTimers, nStreams, pendingOpens,
                 streams, calls, written, emitted, lastEmitted, nTicks,
                 closesSinceOpen, credentialFetches, rejectedOpens, logged,
                 inbound, listeners, single, list, prep>>

\* discovery() settled: rejected, the call rejects; fulfilled, this.discovery
\* is set and the call goes on to the expiry check.
DiscoverySettled(c, ok) ==
  /\ authCalls[c].pc = "discovering"
  /\ LET next == IF ok THEN Refresh([auth EXCEPT !.discovery = TRUE], authCalls[c])
                 ELSE [auth |-> auth, call |-> [authCalls[c] EXCEPT !.pc = "rejected"]]
     IN /\ auth' = next.auth
        /\ authCalls' = WithCall(c, next.call, FALSE)
  /\ UNCHANGED <<classifierGrpcCall, keepAlive, activeTimers, nStreams, pendingOpens,
                 streams, calls, written, emitted, lastEmitted, nTicks,
                 closesSinceOpen, credentialFetches, rejectedOpens, logged,
                 inbound, listeners, single, list, prep>>

\* refreshTokenGrant() settled: fulfilled, the new token is held; rejected,
\* the token is dropped; then lines 272-290.
RefreshSettled(c, ok, refresh, hasExp) ==
  /\ authCalls[c].pc = "refreshing"
  /\ LET issued == Issued(auth, refresh)
         next == IF ok
                 THEN Acquire([auth EXCEPT !.token = issued, !.issued = @ + 1,
                                           !.tokenExpiration = Expiration(auth, hasExp),
                                           !.expiryOf = ExpiryOf(auth, issued, hasExp)],
                              [authCalls[c] EXCEPT !.obtained = issued.id])
                 ELSE Acquire([auth EXCEPT !.token = Dropped(auth.token)],
                              [authCalls[c] EXCEPT !.refreshFailed = TRUE])
     IN /\ auth' = next.auth
        /\ authCalls' = WithCall(c, next.call, FALSE)
  /\ UNCHANGED <<classifierGrpcCall, keepAlive, activeTimers, nStreams, pendingOpens,
                 streams, calls, written, emitted, lastEmitted, nTicks,
                 closesSinceOpen, credentialFetches, rejectedOpens, logged,
                 inbound, listeners, single, list, prep>>

\* clientCredentialsGrant() settled: rejected, the call rejects; fulfilled,
\* the new token is held and its header returned.
GrantSettled(c, ok, refresh, hasExp) ==
  /\ authCalls[c].pc = "granting"
  /\ LET issued == Issued(auth, refresh)
         held == [auth EXCEPT !.token = issued, !.issued = @ + 1,
                              !.tokenExpiration = Expiration(auth, hasExp),
                              !.expiryOf = ExpiryOf(auth, issued, hasExp)]
         next == IF ok
                 THEN [auth |-> held,
                       call |-> [authCalls[c] EXCEPT !.pc = "returned",
                                                     !.obtained = issued.id,
                                                     !.header = Header(held.token)]]
                 ELSE [auth |-> auth, call |-> [authCalls[c] EXCEPT !.pc = "rejected"]]
     IN /\ auth' = next.auth
        /\ authCalls' = WithCall(c, next.call, FALSE)
  /\ UNCHANGED <<classifierGrpcCall, keepAlive, activeTimers, nStreams, pendingOpens,
                 streams, calls, written, emitted, lastEmitted, nTicks,
                 closesSinceOpen, credentialFetches, rejectedOpens, logged,
                 inbound, listeners, single, list, prep>>

\* Time passes beyond this.tokenExpiration.
ClockPasses ==
  /\ auth.tokenExpiration = "future"
  /\ auth' = [auth EXCEPT !.tokenExpiration = "past"]
  /\ UNCHANGED <<classifierGrpcCall, keepAlive, activeTimers, nStreams, pendingOpens,
                 streams, calls, written, emitted, lastEmitted, nTicks,
                 closesSinceOpen, credentialFetches, rejectedOpens, logged,
                 inbound, listeners, single, list, prep, authCalls>>

\* ---- specifications -----------------------------------------------------

\* The caller makes at most `opens` open() calls and at most `sends`
\* sendClassifyRequest calls; timer callbacks, continuations and stream
\* events interleave freely with them.
MayOpen(opens) == nStreams + pendingOpens + rejectedOpens < opens
MayTick(ticks) == nTicks < ticks
MayReceive(messages) == Len(inbound) < messages

\* Spec: a session that can be reopened, and one sendClassifyRequest call.
Next ==
  \/ MayOpen(MaxStreams) /\ OpenCall
  \/ OpenReject
  \/ OpenResume
  \/ Close
  \/ MayTick(MaxTicks) /\ Tick
  \/ \E s \in StreamIds, e \in TransportErrorValues : StreamError(s, e)
  \/ \E s \in StreamIds : StreamEnd(s)
  \/ \E s \in StreamIds : StreamClose(s)
  \/ \E s \in StreamIds : StreamDrain(s)
  \/ \E c \in 1..MaxCalls, batch \in Batches : SendClassifyRequest(c, batch)
  \/ \E c \in CallIds, ok \in BOOLEAN : PrepareSettled(c, ok)

Spec == Init /\ [][Next]_vars

\* SpecPair: one session, and two sendClassifyRequest calls.
NextPair ==
  \/ MayOpen(PairStreams) /\ OpenCall
  \/ OpenReject
  \/ OpenResume
  \/ Close
  \/ MayTick(MaxTicks) /\ Tick
  \/ \E s \in StreamIds, e \in TransportErrorValues : StreamError(s, e)
  \/ \E s \in StreamIds : StreamEnd(s)
  \/ \E s \in StreamIds : StreamClose(s)
  \/ \E s \in StreamIds : StreamDrain(s)
  \/ \E c \in 1..PairCalls, batch \in Batches : SendClassifyRequest(c, batch)
  \/ \E c \in CallIds, ok \in BOOLEAN : PrepareSettled(c, ok)

SpecPair == Init /\ [][NextPair]_vars

\* SpecEvents: one session, its inbound messages and the caller's 'data'
\* listeners; no sendClassifyRequest call.
NextEvents ==
  \/ MayOpen(EventStreams) /\ OpenCall
  \/ OpenReject
  \/ OpenResume
  \/ Close
  \/ MayTick(EventTicks) /\ Tick
  \/ \E s \in StreamIds, e \in TransportErrorValues : StreamError(s, e)
  \/ \E s \in StreamIds : StreamEnd(s)
  \/ \E s \in StreamIds : StreamClose(s)
  \/ \E s \in StreamIds : StreamDrain(s)
  \/ \E s \in StreamIds, m \in Responses : MayReceive(MaxData) /\ StreamData(s, m)
  \/ \E l \in ListenerIds : Subscribe(l)

SpecEvents == Init /\ [][NextEvents]_vars

\* SpecSingle: a session that can be reopened, and one classifySingle call.
NextSingle ==
  \/ MayOpen(MaxStreams) /\ OpenCall
  \/ OpenReject
  \/ OpenResume
  \/ Close
  \/ MayTick(MaxTicks) /\ Tick
  \/ \E s \in StreamIds, e \in TransportErrorValues : StreamError(s, e)
  \/ \E s \in StreamIds : StreamEnd(s)
  \/ \E s \in StreamIds : StreamClose(s)
  \/ \E s \in StreamIds : StreamDrain(s)
  \/ ClassifySingle
  \/ \E ok \in BOOLEAN : SinglePrepared(ok)
  \/ \E ok \in BOOLEAN : SingleMetadata(ok)
  \/ \E e \in {0} \cup TransportErrorValues, m \in Responses : SingleResponse(e, m)

SpecSingle == Init /\ [][NextSingle]_vars

\* SpecList: one session, and listDeployments called again and again.
MayList(lists) == list.invocations < lists

NextList ==
  \/ MayOpen(PairStreams) /\ OpenCall
  \/ OpenReject
  \/ OpenResume
  \/ Close
  \/ MayTick(MaxTicks) /\ Tick
  \/ \E s \in StreamIds, e \in TransportErrorValues : StreamError(s, e)
  \/ \E s \in StreamIds : StreamEnd(s)
  \/ \E s \in StreamIds : StreamClose(s)
  \/ \E s \in StreamIds : StreamDrain(s)
  \/ MayList(MaxLists) /\ ListDeployments
  \/ \E ok \in BOOLEAN : ListMetadata(ok)
  \/ \E e \in {0} \cup TransportErrorValues, r \in ListResponses : ListResponse(e, r)

SpecList == Init /\ [][NextList]_vars

\* SpecPrepare: any image input, prepared through the client or hashed
\* directly.
NextPrepare ==
  \/ Prepare
  \/ Hash

SpecPrepare == InitPrepare /\ [][NextPrepare]_vars

\* SpecAuth: one AuthenticationManager, its calls entered at any time (also
\* while earlier ones are in flight), and the clock.
NextAuth ==
  \/ \E c \in AuthCallIds : GetAuthenticationHeader(c)
  \/ \E c \in AuthCallIds, ok \in BOOLEAN : DiscoverySettled(c, ok)
  \/ \E c \in AuthCallIds, ok, refresh, hasExp \in BOOLEAN :
       RefreshSettled(c, ok, refresh, hasExp)
  \/ \E c \in AuthCallIds, ok, refresh, hasExp \in BOOLEAN :
       GrantSettled(c, ok, refresh, hasExp)
  \/ ClockPasses

SpecAuth == InitAuth /\ [][NextAuth]_vars

\* ---- claims --------------------------------------------------------------

\* The envelopes call c wrote (positions in `written`); c = 0: the heartbeats.
WritesOf(log, c) == {i \in DOMAIN log : log[i].call = c}

\* The step that enters sendClassifyRequest with a null stream handle.
C1_EntryStep ==
  \A c \in CallIds :
    (calls[c].pc = "idle" /\ calls'[c].pc # "idle" /\ classifierGrpcCall = 0) =>
      /\ calls'[c].pc = "rejected"
      /\ calls'[c].err = "notOpen"
      /\ calls'[c].prepInvoked = 0
      /\ written' = written
      /\ classifierGrpcCall' = 0
      /\ UNCHANGED <<keepAlive, activeTimers, nStreams, pendingOpens, streams>>

\* A call entered with a null stream handle, at any later time.
C1_Rejected ==
  \A c \in CallIds :
    (calls[c].enteredOn = 0 /\ Started(c)) =>
      /\ calls[c].pc = "rejected"
      /\ calls[c].err = "notOpen"
      /\ calls[c].prepInvoked = 0
      /\ WritesOf(written, c) = {}

\* C1: sendClassifyRequest entered with a null stream handle rejects with the
\* 'not open' error at once: the preparer is never invoked for it, nothing is
\* written, and no session is opened (the handle stays null, no stream and no
\* timer is created); such a call stays rejected with no work done.
C1_NotOpenRejects == []C1_Rejected /\ [][C1_EntryStep]_vars

\* A call was rejected as not open after a session had been opened and closed.
C1_Witness ==
  \E c \in CallIds :
    /\ calls[c].err = "notOpen"
    /\ nStreams > 0
    /\ emitted["close"] > 0

\* C2: every sendClassifyRequest call that resolved has written exactly one
\* envelope.
C2_ResolvedWroteOnce ==
  \A c \in CallIds : Resolved(c) => Cardinality(WritesOf(written, c)) = 1

\* C3: once close() has returned, and for as long as open() is not called
\* again, no heartbeat envelope is written.
C3_NoHeartbeatAfterClose ==
  [][(closesSinceOpen > 0 /\ closesSinceOpen' > 0) =>
       WritesOf(written', 0) = WritesOf(written, 0)]_vars

\* A session has reached one of its exits: the caller's close(), or a
\* transport 'end', 'close' or 'error' event on its stream.
Exited(s) ==
  \/ streams[s].ended
  \/ streams[s].endRaised
  \/ streams[s].closeRaised
  \/ streams[s].nErrors > 0

\* C4: the timer started by open() for a session (timer s for stream s) is
\* no longer active once that session has exited.
C4_TimerCancelledOnExit ==
  \A s \in 1..nStreams : Exited(s) => s \notin activeTimers

\* C5: in every state the caller or a listener observes, a non-null stream
\* handle has its heartbeat timer active: the two are cleared together.
C5_HandleImpliesTimer ==
  /\ classifierGrpcCall # 0 => classifierGrpcCall \in activeTimers
  /\ lastEmitted.handle # 0 => lastEmitted.timerOn

\* C6: after every close() the stream handle is null, and a close() that
\* finds it null ends no stream, clears no timer and emits no event.
C6_CloseIdempotent ==
  [][Close =>
       /\ classifierGrpcCall' = 0
       /\ classifierGrpcCall = 0 =>
            UNCHANGED <<streams, activeTimers, keepAlive, emitted, lastEmitted,
                        written, calls>>]_vars

\* close() was called twice with no open() call in between, after a session
\* had been open.
C6_Witness ==
  /\ closesSinceOpen = 2
  /\ classifierGrpcCall = 0
  /\ emitted["close"] > 0

\* The step in which a call writes, and the step in which a suspended call
\* stops waiting.
C7_Step ==
  \A c \in CallIds :
    /\ (WritesOf(written', c) # WritesOf(written, c)) =>
         LET h == written'[Len(written')].stream
         IN IF streams'[h].needDrain
            THEN calls'[c].pc = "awaitDrain" /\ calls'[c].waitOn = h
            ELSE calls'[c].pc = "resolved"
    /\ (calls[c].pc = "awaitDrain" /\ calls'[c].pc # "awaitDrain") =>
         /\ calls'[c].pc = "resolved"
         /\ streams[calls[c].waitOn].needDrain
         /\ ~streams'[calls[c].waitOn].needDrain

\* C7: a call whose write reported backpressure (the stream needs 'drain'
\* after the write) is suspended on that stream and leaves that state only
\* by resolving in a step in which that stream raises 'drain'; a call whose
\* write returned true is resolved in the step of the write.
C7_ResolvesAfterDrain == [][C7_Step]_vars

\* A call that was suspended on backpressure has resolved.
C7_Witness == \E c \in CallIds : Resolved(c) /\ calls[c].waitOn # 0

\* C8: the envelope a call wrote holds one prepared input per input of the
\* call, the i-th carrying the i-th input's correlationId.
C8_OrderPreserved ==
  \A i \in DOMAIN written :
    written[i].call # 0 =>
      LET c == written[i].call
      IN /\ Len(written[i].inputs) = Len(calls[c].inputs)
         /\ \A k \in 1..Len(calls[c].inputs) :
              written[i].inputs[k].correlationId = calls[c].inputs[k]

\* An envelope of two inputs whose correlationIds are not in sorted order.
C8_Witness ==
  \E i \in DOMAIN written :
    /\ Len(written[i].inputs) = 2
    /\ written[i].inputs[1].correlationId > written[i].inputs[2].correlationId

\* C9: if call b was entered after call a had resolved, both on stream s,
\* and b's envelope is on s, then a's envelope is on s too, before b's.
C9_CallOrder ==
  \A a, b \in CallIds :
    (a \in calls[b].after /\ calls[a].enteredOn = calls[b].enteredOn) =>
      \A j \in WritesOf(written, b) :
        /\ \E i \in WritesOf(written, a) : i < j
        /\ \A i \in WritesOf(written, a) : i < j

\* Two sequential calls have written, with a heartbeat between their
\* envelopes and the first one suspended on backpressure before it resolved.
C9_Witness ==
  \E a, b \in CallIds :
    /\ a \in calls[b].after
    /\ calls[a].waitOn # 0
    /\ \E i \in WritesOf(written, a), h \in WritesOf(written, 0), j \in WritesOf(written, b) :
         i < h /\ h < j

\* The step in which the preparation of an input fails.
C10_Step ==
  \A c \in CallIds :
    (calls[c].pc = "preparing" /\ calls'[c].err = "prepare") =>
      /\ calls'[c].pc = "rejected"
      /\ calls'[c].processed = calls[c].processed
      /\ calls'[c].prepInvoked = calls[c].prepInvoked
      /\ written' = written
      /\ UNCHANGED <<classifierGrpcCall, keepAlive, activeTimers, nStreams, streams>>
      /\ \A d \in CallIds \ {c} : calls'[d] = calls[d]

\* The preparer is invoked once per input, in order; a call whose
\* preparation failed stays rejected with nothing written.
C10_Rejected ==
  \A c \in CallIds :
    /\ calls[c].prepInvoked <= Len(calls[c].inputs)
    /\ calls[c].prepInvoked <= Len(calls[c].processed) + 1
    /\ calls[c].err = "prepare" =>
         /\ calls[c].pc = "rejected"
         /\ calls[c].prepInvoked = Len(calls[c].processed) + 1
         /\ WritesOf(written, c) = {}

\* C10: a call whose preparation failed at input k is rejected with that
\* error in a step that writes nothing and changes neither the session nor
\* any other call; it has invoked the preparer once for each of the inputs
\* 1..k and never again, and none of its inputs is ever written.
C10_PrepareFailureRejects == []C10_Rejected /\ [][C10_Step]_vars

\* The second input of a batch failed while another call was in progress on
\* an open session.
C10_Witness ==
  \E c, d \in CallIds :
    /\ c # d
    /\ calls[c].err = "prepare"
    /\ Len(calls[c].processed) = 1
    /\ calls[d].pc \in {"preparing", "awaitDrain"}
    /\ classifierGrpcCall # 0

\* Every emit('data', ...) so far was called once per message raised, and
\* every listener holds the messages raised since it subscribed, in order.
C11_Delivered ==
  /\ emitted["data"] = Len(inbound)
  /\ \A l \in ListenerIds :
       /\ listeners[l].on =>
            listeners[l].received =
              SubSeq(ResponsesOf(inbound), listeners[l].since + 1, Len(inbound))
       /\ ~listeners[l].on => listeners[l].received = <<>>

\* The step in which a stream raises a message, and the step in which a
\* listener subscribes.
C11_Step ==
  /\ inbound' # inbound =>
       /\ Len(inbound') = Len(inbound) + 1
       /\ emitted' = [emitted EXCEPT !["data"] = @ + 1]
       /\ lastEmitted'.ev = "data"
       /\ lastEmitted'.arg = inbound'[Len(inbound')].response
       /\ lastEmitted'.src = inbound'[Len(inbound')].stream
  /\ \A l \in ListenerIds :
       (~listeners[l].on /\ listeners'[l].on) => listeners'[l].received = <<>>

\* C11: each message a stream raises is emitted as exactly one 'data' event
\* carrying that message, in arrival order, and is received by exactly the
\* listeners subscribed at that moment: a listener holds the messages raised
\* since it subscribed and none raised before (nothing is replayed).
C11_DataOnceNoReplay == []C11_Delivered /\ [][C11_Step]_vars

\* One listener received two different messages in arrival order; another,
\* subscribed after the first message, received only the second.
C11_Witness ==
  \E l, k \in ListenerIds :
    /\ listeners[l].received = <<2, 1>>
    /\ listeners[k].on
    /\ listeners[k].since = 1
    /\ listeners[k].received = <<1>>

\* A terminal event ('end' or 'close') raised by stream s in this step.
TerminalEvent(s) ==
  \/ ~streams[s].endRaised /\ streams'[s].endRaised
  \/ ~streams[s].closeRaised /\ streams'[s].closeRaised

\* C12: when the transport terminates a stream the caller has not closed,
\* the first terminal event it raises clears the timer, nulls the handle and
\* emits 'close'; when the stream raises 'close' after 'end', 'close' is not
\* emitted again (one emission for the termination).
C12_SingleCloseEmission ==
  [][\A s \in StreamIds :
       (~streams[s].ended /\ TerminalEvent(s)) =>
         /\ classifierGrpcCall' = 0
         /\ keepAlive \notin activeTimers'
         /\ IF streams[s].endRaised
            THEN emitted'["close"] = emitted["close"]
            ELSE emitted'["close"] = emitted["close"] + 1]_vars

\* C13: a close() that finds a stream handle emits 'close' in the same step;
\* a terminal event raised afterwards by the stream it ended emits 'close'
\* again; and the handle is null after every step that emits 'close'.
C13_CloseEmittedAgain ==
  [][/\ (Close /\ classifierGrpcCall # 0) =>
          /\ emitted'["close"] = emitted["close"] + 1
          /\ lastEmitted'.ev = "close"
     /\ \A s \in StreamIds :
          (streams[s].ended /\ TerminalEvent(s)) =>
            emitted'["close"] = emitted["close"] + 1
     /\ emitted'["close"] # emitted["close"] => classifierGrpcCall' = 0]_vars

\* The one session was closed by the caller and its stream raised 'end'
\* afterwards: 'close' was emitted more than once.
C13_Witness ==
  /\ nStreams = 1
  /\ streams[1].ended
  /\ streams[1].endRaised
  /\ emitted["close"] >= 2
  /\ classifierGrpcCall = 0

\* The step in which 'open' is emitted, and the step in which open() creates
\* its stream.
C14_Step ==
  /\ emitted'["open"] # emitted["open"] =>
       /\ emitted' = [emitted EXCEPT !["open"] = @ + 1]
       /\ nStreams' = nStreams + 1
       /\ classifierGrpcCall' = nStreams'
       /\ keepAlive' \in activeTimers'
       /\ ~streams'[nStreams'].closeRaised
       /\ lastEmitted'.ev = "open"
       /\ lastEmitted'.handle = nStreams'
       /\ ~NotOpen(lastEmitted'.handle)
       /\ lastEmitted'.timerOn
       /\ pendingOpens' = pendingOpens - 1
       /\ streams' = streams
  /\ nStreams' # nStreams => emitted'["open"] = emitted["open"] + 1

\* C14: every open() that creates its stream emits 'open' exactly once, in
\* the step that sets the handle, starts the timer and attaches the
\* listeners; the listeners of 'open' observe the new handle (the session
\* check of sendClassifyRequest passes) with its timer active; open() settles
\* in that step, with no event of the stream involved.
C14_OpenEmittedWhenReady == [](emitted["open"] = nStreams) /\ [][C14_Step]_vars

\* 'open' was emitted for a second session.
C14_Witness ==
  /\ lastEmitted.ev = "open"
  /\ lastEmitted.handle = 2
  /\ emitted["open"] = 2

\* C15 as stated: session metadata is computed at most once per client, so
\* the credential provider is invoked by open() at most once however many
\* times open() is called.
C15_MetadataCachedOnce == credentialFetches <= 1

\* C15 amended: every open() call computes new metadata: the step in which
\* open() is called invokes the credential provider once, also when an
\* earlier open() has already computed metadata.
C15_FreshMetadataPerOpen ==
  [][pendingOpens' = pendingOpens + 1 =>
       credentialFetches' = credentialFetches + 1]_vars

\* Two sessions were opened on the same client, each with its own fetch.
C15_Witness ==
  /\ nStreams = 2
  /\ credentialFetches = 2

\* C16: a stream is created only by the continuation of a caller's open();
\* once close() has returned, and for as long as open() is not called again,
\* the handle stays null; no call writes its envelope more than once.
C16_NoReconnect ==
  [][/\ nStreams' # nStreams =>
          /\ nStreams' = nStreams + 1
          /\ pendingOpens' = pendingOpens - 1
     /\ (closesSinceOpen > 0 /\ closesSinceOpen' > 0) => classifierGrpcCall' = 0
     /\ \A c \in CallIds : Cardinality(WritesOf(written', c)) <= 1]_vars

\* C17: a step in which stream s raises 'error' emits exactly one 'error'
\* event carrying that error and changes nothing else: no
\* sendClassifyRequest call is rejected or otherwise touched, no stream is
\* opened, nothing is written or fetched, and the handle and the timer are
\* as they were.
C17_ErrorForwardedOnly ==
  [][\A s \in StreamIds :
       streams'[s].nErrors # streams[s].nErrors =>
         /\ emitted' = [emitted EXCEPT !["error"] = @ + 1]
         /\ lastEmitted'.ev = "error"
         /\ lastEmitted'.src = s
         /\ lastEmitted'.arg = streams'[s].lastError
         /\ calls' = calls
         /\ UNCHANGED <<classifierGrpcCall, keepAlive, activeTimers, nStreams,
                        pendingOpens, written, credentialFetches>>]_vars

\* A transport error was emitted on an open session while a
\* sendClassifyRequest call is suspended on backpressure.
C17_Witness ==
  /\ lastEmitted.ev = "error"
  /\ lastEmitted.src # 0
  /\ lastEmitted.arg = 2
  /\ lastEmitted.handle # 0
  /\ \E c \in CallIds : calls[c].pc = "awaitDrain"

\* The step of a keep-alive callback whose write threw: it reached the
\* write and no heartbeat was accepted.
HeartbeatThrew == nTicks' = nTicks + 1 /\ written' = written

\* What no heartbeat failure changes: the handle (non-null), the timers.
C18_SessionKept ==
  /\ classifierGrpcCall # 0
  /\ UNCHANGED <<classifierGrpcCall, keepAlive, activeTimers, nStreams, pendingOpens>>
  /\ activeTimers # {}

C19_OneFetchPerOpen == credentialFetches = nStreams + pendingOpens + rejectedOpens

\* The step in which open() rejects.
C19_Step ==
  rejectedOpens' # rejectedOpens =>
    /\ rejectedOpens' = rejectedOpens + 1
    /\ pendingOpens' = pendingOpens - 1
    /\ credentialFetches' = credentialFetches
    /\ UNCHANGED <<classifierGrpcCall, keepAlive, activeTimers, nStreams, streams,
                   emitted, lastEmitted, written, calls, nTicks>>

\* C19: an open() whose credential fetch fails rejects in a step that
\* fetches nothing again, creates no stream, starts no timer, emits nothing
\* and leaves the handle as it was; no fetch is ever repeated for an open().
C19_OpenRejectsUnchanged == []C19_OneFetchPerOpen /\ [][C19_Step]_vars

\* An open() rejected while a session opened earlier is still open.
C19_Witness ==
  /\ rejectedOpens > 0
  /\ classifierGrpcCall # 0
  /\ classifierGrpcCall \in activeTimers
  /\ lastEmitted.ev = "open"

\* classifySingle can take its next step whatever the session state is.
C20_NeverBlocked ==
  /\ single.pc = "idle" => ENABLED ClassifySingle
  /\ single.pc = "preparing" => ENABLED SinglePrepared(TRUE)
  /\ single.pc = "metadata" => ENABLED SingleMetadata(TRUE)
  /\ single.pc = "calling" => ENABLED SingleResponse(0, 1)

\* A step of classifySingle.
C20_Step ==
  single' # single =>
    UNCHANGED <<classifierGrpcCall, keepAlive, activeTimers, nStreams, pendingOpens,
                streams, written, emitted, lastEmitted, calls, nTicks,
                closesSinceOpen, credentialFetches, rejectedOpens>>

\* C20: no step of classifySingle depends on the session (never opened,
\* open or closed), and none changes the handle, the timer or the streams,
\* writes on the duplex stream or emits an event.
C20_SingleIndependent == []C20_NeverBlocked /\ [][C20_Step]_vars

\* classifySingle resolved on a client whose session was opened and closed,
\* having made its unary call once.
C20_Witness ==
  /\ single.pc = "resolved"
  /\ single.sent = 1
  /\ classifierGrpcCall = 0
  /\ emitted["close"] > 0

\* C21: classifySingle invokes the preparer once and the unary call at most
\* once; it resolves with the response the callback was given when the
\* callback's err is null and rejects with that err otherwise; after a failed
\* preparation it has fetched no credential and issued no call, and after a
\* failed credential fetch it has issued no call.
C21_SingleOutcome ==
  /\ single.prepared <= 1
  /\ single.fetched <= 1
  /\ single.sent <= 1
  /\ single.pc # "idle" => single.prepared = 1
  /\ single.pc = "resolved" =>
       /\ single.err = "none"
       /\ single.fetched = 1 /\ single.sent = 1
       /\ single.callback.err = 0
       /\ single.response = single.callback.response
       /\ single.response # 0
  /\ single.pc = "rejected" =>
       /\ single.err \in {"prepare", "credential", "transport"}
       /\ single.err = "prepare" => single.fetched = 0 /\ single.sent = 0
       /\ single.err = "credential" => single.fetched = 1 /\ single.sent = 0
       /\ single.err = "transport" =>
            /\ single.sent = 1
            /\ single.callback.err # 0
            /\ single.transportError = single.callback.err

\* classifySingle rejected with the second transport error while a session
\* was open.
C21_Witness ==
  /\ single.pc = "rejected"
  /\ single.transportError = 2
  /\ single.sent = 1
  /\ classifierGrpcCall # 0

\* What listDeployments has done up to any moment: one fetch per
\* invocation, at most one unary call per invocation, and an array as its
\* result whenever it resolved.
C22_Listed ==
  /\ list.fetched = list.invocations
  /\ list.sent <= list.invocations
  /\ list.pc = "calling" => list.sent > 0
  /\ list.pc = "resolved" =>
       /\ list.callback.err = 0
       /\ list.result.isArray
       /\ IF list.callback.response.present /\ list.callback.response.hasList
          THEN list.result.items = list.callback.response.deployments
          ELSE list.result.items = <<>>
  /\ list.pc = "rejected" /\ list.err = "transport" =>
       /\ list.callback.err # 0
       /\ list.transportError = list.callback.err
  /\ list.pc \in {"idle", "resolved", "rejected"} => ENABLED ListDeployments
  /\ list.pc = "metadata" => ENABLED ListMetadata(TRUE)
  /\ list.pc = "calling" => ENABLED ListResponse(0, NoResponse)

\* A step of listDeployments.
C22_Step ==
  list' # list =>
    /\ UNCHANGED <<classifierGrpcCall, keepAlive, activeTimers, nStreams, pendingOpens,
                   streams, written, emitted, lastEmitted, calls, nTicks,
                   closesSinceOpen, credentialFetches, rejectedOpens>>
    /\ list'.invocations # list.invocations =>
         /\ list'.fetched = list.fetched + 1
         /\ list'.sent = list.sent
    /\ list'.sent # list.sent =>
         /\ list'.sent = list.sent + 1
         /\ list'.invocations = list.invocations

\* C22: every step of listDeployments is possible in every session state
\* and changes nothing of the session; each invocation fetches a credential
\* and issues at most one unary call, exactly one once the fetch succeeded;
\* it resolves to an array (the response's list, or the empty array when
\* the response or its list is missing) when the callback's err is null and
\* rejects with that err otherwise.
C22_ListIndependent == []C22_Listed /\ [][C22_Step]_vars

\* A second listDeployments call resolved to the empty array on a response
\* without a list, after the session was opened and closed.
C22_Witness ==
  /\ list.invocations = 2
  /\ list.fetched = 2
  /\ list.pc = "resolved"
  /\ list.callback.response.present
  /\ ~list.callback.response.hasList
  /\ list.result.items = <<>>
  /\ classifierGrpcCall = 0
  /\ emitted["close"] > 0

\* The hash types among MD5 and SHA1 that a list of types names.
Named(types) == {h \in {"MD5", "SHA1"} : \E k \in DOMAIN types : types[k] = h}

\* C23: the hash list of an input prepared by the client holds one entry per
\* hash type among MD5 and SHA1 that was asked for, each with a non-blank
\* value, MD5 before SHA1, and no other entry: two entries when
\* includeHashes is not given, one when it names one of the two types, none
\* when it is empty.
C23_HashList ==
  (prep.via = "sdk" /\ prep.out.ok) =>
    LET given == prep.input.includeHashes.given
        types == prep.input.includeHashes.types
        asked == IF given THEN Named(types) ELSE {"MD5", "SHA1"}
        hashes == prep.out.hashes
    IN /\ Len(hashes) = Cardinality(asked)
       /\ \A k \in DOMAIN hashes :
            /\ hashes[k].type \in asked
            /\ hashes[k].value \notin {"", " "}
       /\ \A j, k \in DOMAIN hashes : j < k =>
            hashes[j].type = "MD5" /\ hashes[k].type = "SHA1"
       /\ ~given => Len(hashes) = 2
       /\ (given /\ types \in {<<"MD5">>, <<"SHA1">>}) =>
            Len(hashes) = 1 /\ hashes[1].type = types[1]
       /\ (given /\ types = <<>>) => hashes = <<>>

\* An input naming SHA1 before MD5 was prepared: both entries, MD5 first.
C23_Witness ==
  /\ prep.via = "sdk"
  /\ prep.out.ok
  /\ prep.input.includeHashes.types = <<"SHA1", "MD5">>
  /\ Len(prep.out.hashes) = 2

\* C24: computeHashesFromStream called on a decodable image: without resize
\* it rejects with 'Image must be 448x448 pixels' when the width or the
\* height is not 448 and accepts a 448x448 image, returning its bytes; with
\* resize it accepts any such image and returns raw pixels of
\* 448 x 448 x 3 bytes (before compression).
C24_DimensionContract ==
  (prep.via = "direct" /\ prep.input.decodable) =>
    LET in == prep.input
        out == prep.out
        square == in.width = 448 /\ in.height = 448
    IN IF in.resize = "true"
       THEN /\ out.ok
            /\ out.data.kind = "rawBGR"
            /\ out.data.rawBytes = 448 * 448 * 3
       ELSE IF square
       THEN /\ out.ok
            /\ out.data.kind = "original"
            /\ out.data.rawBytes = in.bytes
       ELSE /\ ~out.ok
            /\ out.err = "Image must be 448x448 pixels"

\* An image with only its height off was refused without resize.
C24_Witness ==
  /\ prep.via = "direct"
  /\ prep.input.decodable
  /\ prep.input.resize = "false"
  /\ prep.input.width = 448
  /\ prep.input.height = 449
  /\ prep.out.err = "Image must be 448x448 pixels"

\* C25: an AuthenticationManager performs discovery at most once, however
\* many getAuthenticationHeader calls are made and however they overlap.
C25_DiscoveredOnce == auth.nDiscoveries <= 1

\* C26: a call that found the held token expired asks refreshTokenGrant once
\* when that token has a refresh_token and not at all when it has none; it
\* asks clientCredentialsGrant once when there was no refresh_token or the
\* refresh failed; and when it returns, its header is built from the token
\* it obtained, which is newer than the expired one.
C26_ExpiredReplaced ==
  \A c \in AuthCallIds :
    LET rec == authCalls[c] IN
      rec.sawExpired # 0 =>
        /\ rec.refreshes = (IF rec.hadRefresh THEN 1 ELSE 0)
        /\ rec.refreshFailed => rec.grants = 1
        /\ ~rec.hadRefresh => rec.grants = 1
        /\ rec.pc = "returned" =>
             /\ rec.header = [scheme |-> "Bearer", credentials |-> rec.obtained]
             /\ rec.obtained > rec.sawExpired
             /\ rec.grants = (IF rec.hadRefresh /\ ~rec.refreshFailed THEN 0 ELSE 1)

C26_Witness ==
  /\ \E c \in AuthCallIds :
       /\ authCalls[c].pc = "returned"
       /\ authCalls[c].sawExpired # 0
       /\ authCalls[c].hadRefresh
       /\ authCalls[c].refreshFailed
  /\ \E c \in AuthCallIds :
       /\ authCalls[c].pc = "returned"
       /\ authCalls[c].sawExpired # 0
       /\ ~authCalls[c].hadRefresh

\* A manager that discovered and holds a token that has not expired.
Holding == auth.discovery /\ auth.token.id # 0 /\ auth.tokenExpiration # "past"

\* C27: the first call on a new manager, when no call overlaps it, has made
\* one discovery and one clientCredentialsGrant (audience 'crisp-athena-live'
\* unless the options give one) and no refresh by the time it returns.
C27_FirstCall ==
  \A c \in AuthCallIds :
    LET rec == authCalls[c] IN
      (rec.first /\ rec.alone /\ rec.pc = "returned") =>
        /\ rec.discoveries = 1
        /\ rec.grants = 1
        /\ rec.refreshes = 0
        /\ rec.grantAudience =
             (IF auth.audience = "" THEN "crisp-athena-live" ELSE auth.audience)
        /\ rec.header = [scheme |-> "Bearer", credentials |-> rec.obtained]

\* C27: a call entered while the manager holds an unexpired token returns the
\* header of that token in the same step and leaves the manager as it was.
C27_Step ==
  \A c \in AuthCallIds :
    (authCalls[c].pc = "idle" /\ authCalls'[c].pc # "idle" /\ Holding) =>
      /\ authCalls'[c].pc = "returned"
      /\ authCalls'[c].header = Header(auth.token)
      /\ authCalls'[c].discoveries = 0
      /\ authCalls'[c].refreshes = 0
      /\ authCalls'[c].grants = 0
      /\ auth' = auth

C28_HandleReadAtEntry ==
  \A c \in CallIds :
    /\ \A i \in WritesOf(written, c) : written[i].stream = calls[c].enteredOn
    /\ calls[c].pc \in {"resolved", "awaitDrain"} => WritesOf(written, c) # {}

\* Call c is suspended on backpressure on a stream that close() has ended.
SuspendedOnEnded(c) ==
  /\ calls[c].pc = "awaitDrain"
  /\ streams[calls[c].waitOn].ended

C29_Step ==
  /\ Close => calls' = calls
  /\ \A c \in CallIds :
       (SuspendedOnEnded(c) /\ calls'[c] # calls[c]) =>
         /\ calls'[c] = [calls[c] EXCEPT !.pc = "resolved"]
         /\ Live(calls[c].waitOn)
         /\ streams[calls[c].waitOn].needDrain
         /\ ~streams'[calls[c].waitOn].needDrain

\* C29: close() settles no sendClassifyRequest call; a call suspended on
\* backpressure on the stream close() ended stays as it is in every step
\* except one in which that stream raises 'drain', which resolves it.
C29_PendingAcrossClose == [][C29_Step]_vars

\* A call is still suspended on the stream that close() ended, and the
\* session has no handle.
C29_Witness ==
  \E c \in CallIds : SuspendedOnEnded(c) /\ classifierGrpcCall = 0

\* Every envelope in the write log carries the configured deployment id, and
\* the heartbeats (call 0) carry no inputs.
C30_Envelopes ==
  \A i \in DOMAIN written :
    /\ written[i].deploymentId = deploymentId
    /\ written[i].call = 0 => written[i].inputs = <<>>

C30_Step ==
  Tick =>
    IF classifierGrpcCall = 0
    THEN UNCHANGED vars
    ELSE /\ nTicks' = nTicks + 1
         /\ \/ written' = written
            \/ written' = Append(written, [stream |-> classifierGrpcCall, call |-> 0,
                                           deploymentId |-> deploymentId,
                                           inputs |-> <<>>])

\* C30: a heartbeat tick that finds a stream handle makes one write, of an
\* envelope with the configured deploymentId and an empty input list, to that
\* handle (the log gains that envelope unless the write throws); a tick that
\* finds no handle changes nothing; and every envelope written, heartbeat or
\* submission, carries the configured deploymentId.
C30_HeartbeatEnvelope == []C30_Envelopes /\ [][C30_Step]_vars

\* The log holds a heartbeat and a submission, and a timer is still scheduled
\* while the handle is null.
C30_Witness ==
  /\ WritesOf(written, 0) # {}
  /\ \E c \in CallIds : WritesOf(written, c) # {}
  /\ activeTimers # {}
  /\ classifierGrpcCall = 0

InPreparation(c) ==
  IF calls[c].pc = "preparing"
  THEN calls[c].prepInvoked - Len(calls[c].processed)
  ELSE 0

C32_OneAtATime ==
  \A c \in CallIds :
    /\ InPreparation(c) <= 1
    /\ calls[c].pc = "preparing" => calls[c].prepInvoked = Len(calls[c].processed) + 1
    /\ WritesOf(written, c) # {} =>
         /\ Len(calls[c].processed) = Len(calls[c].inputs)
         /\ calls[c].prepInvoked = Len(calls[c].inputs)
         /\ InPreparation(c) = 0

C32_Step ==
  \A c \in CallIds :
    /\ calls'[c].prepInvoked \in {calls[c].prepInvoked, calls[c].prepInvoked + 1}
    /\ (calls[c].prepInvoked > 0 /\ calls'[c].prepInvoked = calls[c].prepInvoked + 1) =>
         /\ Len(calls'[c].processed) = calls[c].prepInvoked
         /\ calls'[c].processed =
              Append(calls[c].processed,
                     ProcessedInput(calls[c].inputs[calls[c].prepInvoked]))
         /\ written' = written
    /\ WritesOf(written', c) # WritesOf(written, c) =>
         /\ calls'[c].pc # "preparing"
         /\ Len(calls'[c].processed) = Len(calls[c].inputs)

\* C32: within one call the preparer is invoked for the inputs in array
\* order, the next one only in the step in which the preparation before it
\* completed, so that at most one preparation of the call is in flight; the
\* call's write happens in a step in which no preparation is left, after all
\* inputs were prepared.
C32_SequentialPreparation == []C32_OneAtATime /\ [][C32_Step]_vars

\* A call with a batch of two is preparing its second input, the first one
\* done.
C32_Witness ==
  \E c \in CallIds :
    /\ calls[c].pc = "preparing"
    /\ Len(calls[c].inputs) = 2
    /\ Len(calls[c].processed) = 1
    /\ calls[c].prepInvoked = 2

\* The step in which an open() call installs its stream, and the steps in
\* which the client ends a stream.
C33_Step ==
  /\ (nStreams' = nStreams + 1 /\ classifierGrpcCall # 0) =>
       /\ classifierGrpcCall' = nStreams'
       /\ classifierGrpcCall' # classifierGrpcCall
       /\ keepAlive' = nStreams'
       /\ streams' = streams
       /\ activeTimers' = activeTimers \cup {nStreams'}
  /\ \A s \in StreamIds :
       (~streams[s].ended /\ streams'[s].ended) => s = classifierGrpcCall
  /\ classifierGrpcCall' \in {classifierGrpcCall, 0, nStreams + 1}

\* C33: an open() that finds a session active installs a new stream as the
\* handle and a new timer, and leaves the prior stream and the prior timer as
\* they were; the client ends only the stream that is the handle, and a
\* replaced stream never becomes the handle again, so it is never ended.
C33_ReopenAbandons == [][C33_Step]_vars

\* After a reopen, the abandoned first stream, not ended, raised an error
\* that its listener emitted, with the first timer still scheduled.
C33_Witness ==
  /\ classifierGrpcCall = 2
  /\ ~streams[1].ended
  /\ 1 \in activeTimers
  /\ lastEmitted.ev = "error"
  /\ lastEmitted.src = 1

C35_SingleTimer == Cardinality(activeTimers) <= 1

\* C36: a terminal event ('end' or 'close') raised by a stream that is not
\* the session's current stream leaves the current handle in place and the
\* current session's timer scheduled.
C36_StaleEventIgnored ==
  [][\A s \in StreamIds :
       (TerminalEvent(s) /\ classifierGrpcCall # 0 /\ s # classifierGrpcCall) =>
         /\ classifierGrpcCall' = classifierGrpcCall
         /\ keepAlive \in activeTimers => keepAlive \in activeTimers']_vars

\* C37: whenever 'close' is emitted, its listeners find the stream handle
\* null.
C37_CloseSeesNullHandle == lastEmitted.ev = "close" => lastEmitted.handle = 0

\* With a timer scheduled and a stream handle, a tick can write its
\* heartbeat, also while the stream waits for 'drain'.
C38_TickWrites ==
  (activeTimers # {} /\ classifierGrpcCall # 0) =>
    ENABLED (Tick /\ Len(written') = Len(written) + 1)

\* A tick that reached its write leaves every sendClassifyRequest call as it
\* was, and a stream waiting for 'drain' still waits for it.
C38_Step ==
  (Tick /\ nTicks' = nTicks + 1) =>
    /\ calls' = calls
    /\ streams[classifierGrpcCall].needDrain => streams'[classifierGrpcCall].needDrain
    /\ \A s \in StreamIds \ {classifierGrpcCall} : streams'[s] = streams[s]

\* C38: the heartbeat is not gated by backpressure: a tick writes to the
\* handle also while the stream waits for 'drain' and a call is suspended on
\* it, in one step, without waiting itself and without touching the
\* suspended call; only sendClassifyRequest calls wait for 'drain'.
C38_HeartbeatUngated == []C38_TickWrites /\ [][C38_Step]_vars

\* A heartbeat was written to the stream after the envelope of a call that
\* is still suspended on that stream.
C38_Witness ==
  \E c \in CallIds :
    /\ calls[c].pc = "awaitDrain"
    /\ streams[calls[c].waitOn].needDrain
    /\ \E i \in WritesOf(written, c), j \in WritesOf(written, 0) :
         i < j /\ written[j].stream = calls[c].waitOn

\* Call c has been entered and has not settled.
InProgress(c) == calls[c].pc \in {"preparing", "awaitDrain"}

\* Each call has at most one envelope in the log, and it holds the inputs the
\* call prepared, all of them and no others.
C39_OwnEnvelope ==
  \A c \in CallIds :
    /\ Cardinality(WritesOf(written, c)) <= 1
    /\ \A i \in WritesOf(written, c) :
         /\ written[i].inputs = calls[c].processed
         /\ written[i].inputs =
              [k \in 1..Len(calls[c].inputs) |-> ProcessedInput(calls[c].inputs[k])]

\* While call a is in progress (preparing, or suspended awaiting 'drain'),
\* the next call is accepted, and a call preparing its last input writes as
\* soon as that preparation completes.
C39_NotSerialized ==
  \A a, b \in CallIds :
    (a + 1 = b /\ InProgress(a) /\ classifierGrpcCall # 0) =>
      /\ calls[b].pc = "idle" =>
           ENABLED (SendClassifyRequest(b, <<1>>) /\ calls'[b].pc = "preparing")
      /\ (calls[b].pc = "preparing"
            /\ Len(calls[b].processed) + 1 = Len(calls[b].inputs)) =>
           ENABLED (PrepareSettled(b, TRUE) /\ WritesOf(written', b) # {})

\* The step in which a call's envelope is written: the one in which its last
\* preparation completes (or its entry, for an empty batch); the envelope
\* joins the end of the log.
C39_Step ==
  \A c \in CallIds :
    WritesOf(written', c) # WritesOf(written, c) =>
      /\ calls[c].pc \in {"idle", "preparing"}
      /\ calls'[c].pc \notin {"idle", "preparing"}
      /\ Len(written') = Len(written) + 1
      /\ written'[Len(written')].call = c
      /\ \A d \in CallIds \ {c} : calls'[d] = calls[d]

\* C39: overlapping sendClassifyRequest calls are not serialized: a call is
\* accepted and prepared while an earlier one is preparing or suspended, each
\* envelope is written in the step in which its call's preparation
\* completes, whatever the other calls are doing, and each call writes only
\* its own inputs, in one envelope.
C39_OverlappingCalls ==
  []C39_OwnEnvelope /\ []C39_NotSerialized /\ [][C39_Step]_vars

\* The envelope of the second call was written before the envelope of the
\* first, each holding its own inputs.
C39_Witness ==
  \E i \in WritesOf(written, 2), j \in WritesOf(written, 1) :
    /\ i < j
    /\ written[i].inputs # <<>>
    /\ written[j].inputs # <<>>
    /\ written[i].inputs # written[j].inputs

\* C40: when a getAuthenticationHeader call returns, the stored
\* tokenExpiration (if any) was computed from the token held, and a token is
\* found expired only by its own expiry.
C40_ExpiryOfHeldToken ==
  [][\A c \in AuthCallIds :
       /\ (authCalls[c].pc # "returned" /\ authCalls'[c].pc = "returned") =>
            \/ auth'.tokenExpiration = "undefined"
            \/ auth'.expiryOf = auth'.token.id
       /\ (authCalls[c].sawExpired = 0 /\ authCalls'[c].sawExpired # 0) =>
            auth.expiryOf = auth.token.id]_vars

TypeOK ==
  /\ classifierGrpcCall \in {0} \cup StreamIds
  /\ keepAlive \in {0} \cup StreamIds
  /\ activeTimers \subseteq StreamIds
  /\ nStreams \in 0..Cardinality(StreamIds)
  /\ pendingOpens \in 0..Cardinality(StreamIds)
  /\ nTicks \in 0..Larger(MaxTicks, EventTicks)
  /\ auth.tokenExpiration \in {"undefined", "future", "past"}
  /\ \A c \in AuthCallIds :
       authCalls[c].pc \in {"idle", "discovering", "refreshing", "granting",
                            "returned", "rejected"}

====
